---- MODULE Spec2Model ----
(***************************************************************************)
(* A model of go-lager: the per-line buffer and its output lock (buf.go,   *)
(* kept in src/unnamed/part_018), the severity registry and the global     *)
(* configuration snapshot (src/lager.go).                                  *)
(*                                                                         *)
(* Strings that are only copied into a line (messages, values) are         *)
(* modelled by their length in bytes; the buffer, the lock and the         *)
(* destination are modelled byte-exactly on those lengths: a write record  *)
(* names the line and the byte range [from, to) of that line it carries.   *)
(* Labels of the key scheme and level names are real strings.              *)
(***************************************************************************)
EXTENDS Integers, Sequences, FiniteSets, TLC

(***************************************************************************)
(* Program constants                                                       *)
(***************************************************************************)
\* len(buffer.scratch): scratch [16 * 1024]byte
ScratchCap == 16384
\* room scalar() keeps free: cap(b.buf) < len(b.buf)+64
Reserve == 64
\* number of log levels (lPanic .. lGuts)
nLevels == 11
\* RecoverPanicToExit: exit := 1
ExitStatus == 1
\* firstInit: pathParts: 3
DefaultPathParts == 3

lPanic == 0
lExit == 1
lFail == 2
lWarn == 3
lNote == 4
lAcc == 5
lInfo == 6
lTrace == 7
lDebug == 8
lObj == 9
lGuts == 10

Levels == 0 .. (nLevels - 1)

levNames == <<"PANIC", "EXIT", "FAIL", "WARN", "NOTE", "ACCESS", "INFO",
              "TRACE", "DEBUG", "OBJ", "GUTS">>

\* level.String(): the name, or the number in decimal for a level that has
\* none
LevelString(l) ==
    IF l + 1 \in DOMAIN levNames THEN levNames[l + 1] ELSE ToString(l)

identLevelNotation(lev) == lev

\* lev[0] of an empty string: the run-time panic
IndexPanic == [panic |-> "index out of range"]

\* GcpLevelName: the switch on lev[0], the first byte of the name
GcpLevelName(lev) ==
    IF lev = "" THEN IndexPanic
    ELSE LET c == SubSeq(lev, 1, 1)
         IN  CASE c \in {"P", "E"} -> "600"
               [] c = "F" -> "500"
               [] c = "W" -> "400"
               [] c = "N" -> "300"
               [] c \in {"A", "I"} -> "200"
               [] c \in {"T", "D", "O", "G"} -> "100"
               [] OTHER -> "0"

\* g.levDesc applied to a level name; the function is held by name
ApplyLevDesc(f, lev) ==
    IF f = "gcp" THEN GcpLevelName(lev) ELSE identLevelNotation(lev)

\* the text timeBoxedCall substitutes on timeout (85 bytes)
Placeholder ==
    "func call took more than 10ms while lager lock held (log line was already over 16KiB)"

(***************************************************************************)
(* Values handed to the encoder.  k: "str" (a string of n bytes that needs *)
(* no escaping), "int" (an integer of n digits), "nil", "list" (an AList   *)
(* of items), "fn" (a func() interface{}; f names its behaviour).          *)
(***************************************************************************)
Str(n) == [k |-> "str", n |-> n, f |-> "", items |-> <<>>]
\* the string s
Text(s) == [k |-> "str", n |-> Len(s), f |-> s, items |-> <<>>]
Num(n) == [k |-> "int", n |-> n, f |-> "", items |-> <<>>]
Nil == [k |-> "nil", n |-> 0, f |-> "", items |-> <<>>]
Fn(f) == [k |-> "fn", n |-> 0, f |-> f, items |-> <<>>]
AList(items) == [k |-> "list", n |-> 0, f |-> "", items |-> items]

(***************************************************************************)
(* A line is composed by a sequence of buffer operations.  Each one is a   *)
(* record: "w" is one string appended by buffer.write / writeBytes (n      *)
(* bytes), "raw" is n bytes appended straight to b.buf (strconv.Append*,   *)
(* int2, int), "res" is scalar()'s check for Reserve free bytes, "fn" is   *)
(* timeBoxedCall of a deferred value (n is the length of b.delim at that   *)
(* point), "end" is the start of logger.end for an Exit line, "u" is       *)
(* unlock(), "put" is bufPool.Put and "abort" the switch at the end of     *)
(* logger.end.                                                             *)
(***************************************************************************)
W(n) == [o |-> "w", n |-> n, f |-> ""]
Raw(n) == [o |-> "raw", n |-> n, f |-> ""]
Res == [o |-> "res", n |-> 0, f |-> ""]
Call(f, d) == [o |-> "fn", n |-> d, f |-> f]
Unl == [o |-> "u", n |-> 0, f |-> ""]
Put == [o |-> "put", n |-> 0, f |-> ""]
Abort == [o |-> "abort", n |-> 0, f |-> ""]

\* const comma = ", "
comma == 2

\* buffer.quote(s) with b.delim of d bytes: write(b.delim, `"`); escape(s); write(`"`)
quote(d, n) == <<W(d), W(1), W(n), W(1)>>

\* buffer.open(punct): write(b.delim, punct)
open(d, n) == <<W(d), W(n)>>

\* buffer.colon(): write(":")
colon == <<W(1)>>

\* buffer.close(punct) for a punct of n bytes
close(n) == <<W(n)>>

RECURSIVE scalar(_, _)
RECURSIVE inlineList(_, _)

\* buffer.inlineList(args): scalar of each; d is b.delim before the first
inlineList(d, args) ==
    IF args = <<>> THEN <<>>
    ELSE scalar(d, Head(args)) \o inlineList(comma, Tail(args))

\* buffer.scalar(s) with b.delim of d bytes on entry; b.delim is comma after
scalar(d, v) ==
    IF v.k = "fn" THEN <<Call(v.f, d)>>
    ELSE <<W(d), Res>> \o
         CASE v.k = "nil" -> <<W(4)>>
           [] v.k = "str" -> quote(0, v.n)
           [] v.k = "int" -> <<Raw(v.n)>>
           [] v.k = "list" -> open(0, 1) \o inlineList(0, v.items) \o close(1)

\* scalar() of what timeBoxedCall returned (a string of n bytes): the part
\* of scalar() after the call
scalarAfterCall(d, n) == <<W(d), Res>> \o quote(0, n)

\* buffer.pair(k, v): quote(k); colon(); scalar(v)
pair(d, k, v) == quote(d, Len(k)) \o colon \o scalar(0, v)

RECURSIVE pairsFrom(_, _, _, _)
\* the loop of buffer.pairs(m) from index i on
pairsFrom(d, keys, vals, i) ==
    IF i > Len(keys) THEN <<>>
    ELSE pair(d, keys[i], vals[i]) \o pairsFrom(comma, keys, vals, i + 1)

\* buffer.pairs(m) for a non-nil m
pairs(d, m) == pairsFrom(d, m.keys, m.vals, 1)

\* scalar(v) for v an AMap: open("{"); pairs(v); close("}")
scalarAMap(d, m) == <<W(d), Res>> \o open(0, 1) \o pairs(0, m) \o close(1)

RECURSIVE rawPairsFrom(_, _, _)
\* the loop of buffer.rawPairs(m) from index i on, for tokens without
\* sentinels: an even index (0-based) is a key, an odd one a value
rawPairsFrom(d, m, i) ==
    IF i > Len(m) THEN <<>>
    ELSE IF i % 2 = 1
         THEN quote(d, m[i].n) \o colon \o rawPairsFrom(0, m, i + 1)
         ELSE scalar(0, m[i]) \o rawPairsFrom(comma, m, i + 1)

\* buffer.rawPairs(m); an odd trailing key gets scalar(nil)
rawPairs(d, m) ==
    rawPairsFrom(d, m, 1) \o (IF Len(m) % 2 = 1 THEN scalar(0, Nil) ELSE <<>>)

\* scalar(v) for v a RawMap
scalarRawMap(d, m) == <<W(d), Res>> \o open(0, 1) \o rawPairs(0, m) \o close(1)

\* buffer.msgList(msg, args)
msgList(d, msg, args) ==
    open(d, 1) \o scalar(0, msg) \o inlineList(comma, args) \o close(1)

\* buffer.timestamp(): 27 bytes, the same in both formats
timestamp ==
    <<W(1), Raw(4), W(1), Raw(2), W(1), Raw(2), W(1), Raw(2), W(1), Raw(2),
      W(1), Raw(2), W(1), Raw(4), W(2)>>

RECURSIVE OpsLen(_)
\* bytes a sequence of operations appends
OpsLen(ops) ==
    IF ops = <<>> THEN 0
    ELSE (IF Head(ops).o \in {"w", "raw"} THEN Head(ops).n ELSE 0)
         + OpsLen(Tail(ops))

(***************************************************************************)
(* The registry and the configuration snapshot.  Pointers are indices:     *)
(* a globals pointer is an index into snaps, a logger pointer an index     *)
(* into loggers, an AMap (pointer to KVPairs) an index into maps; 0 is     *)
(* nil.  In a lagers table 0 is the noop{} value.                          *)
(***************************************************************************)
noop == 0

\* &logger{lev: l}
NewLogger(l) == [lev |-> l, kvp |-> 0, mod |-> "", g |-> 0]

\* keys == nil
NoKeys == <<>>

\* &keyStrs{when, lev, msg, args, ctx, mod}, as a tuple in that order
keyStrs(when, lev, msg, args, ctx, mod) == <<when, lev, msg, args, ctx, mod>>
kWhen(k) == k[1]
kLev(k) == k[2]
kMsg(k) == k[3]
kArgs(k) == k[4]
kCtx(k) == k[5]
kMod(k) == k[6]

\* the letter of setLevels' switch that enables a level; -1 for any other
LevelOfLetter(c) ==
    CASE c = "F" -> lFail
      [] c = "W" -> lWarn
      [] c = "N" -> lNote
      [] c = "A" -> lAcc
      [] c = "I" -> lInfo
      [] c = "T" -> lTrace
      [] c = "D" -> lDebug
      [] c = "O" -> lObj
      [] c = "G" -> lGuts
      [] OTHER -> -1

\* a search that never finds the byte
neverContains(enabled, b) == FALSE

\* bytes.Contains(enabled, []byte{b})
Contains(enabled, b) == \E i \in 1 .. Len(enabled) : enabled[i] = b

RECURSIVE setLevelsLoop(_, _, _)
\* the loop of setLevels over the characters of levels from index i on;
\* U is [g, loggers]: the globals being changed and the heap of loggers
setLevelsLoop(U, levels, i) ==
    IF i > Len(levels) THEN U
    ELSE LET c == levels[i]
             l == LevelOfLetter(c)
         IN  IF l = -1 THEN setLevelsLoop(U, levels, i + 1)
             ELSE LET lg == Append(U.loggers, NewLogger(l))
                      g1 == [U.g EXCEPT !.lagers[l + 1] = Len(lg),
                                        !.enabled =
                                            IF Contains(@, c) THEN @
                                            ELSE Append(@, c)]
                  IN  setLevelsLoop([g |-> g1, loggers |-> lg], levels, i + 1)

\* a reset that takes in Panic and Exit
resetAll == lPanic .. lGuts

\* setLevels: for l := lFail; l <= lGuts; l++ { g.lagers[int(l)] = noop{} }
resetRange == lFail .. lGuts

\* setLevels(levels)(g); levels is a sequence of one-character strings
setLevels(levels, U) ==
    LET g0 == [U.g EXCEPT !.lagers =
                   [i \in 1 .. nLevels |->
                       IF i - 1 \in resetRange THEN noop ELSE @[i]],
                          !.enabled = <<>>]
        lv == IF levels = <<>> THEN <<"F", "W", "N", "A">> ELSE levels
    IN  setLevelsLoop([g |-> g0, loggers |-> U.loggers], lv, 1)

\* setKeys(keys)(g)
setKeys(keys, U) == [U EXCEPT !.g.keys = keys]

\* An updater passed to updateGlobals, by name and argument
Updater(op, arg) == [op |-> op, arg |-> arg]

\* updater(&copy)
applyUpdater(u, U) ==
    CASE u.op = "setLevels" -> setLevels(u.arg, U)
      [] u.op = "setKeys" -> setKeys(u.arg, U)
      [] u.op = "dest" -> [U EXCEPT !.g.dest = u.arg]
      [] u.op = "restore" -> [U EXCEPT !.g.dest = u.arg]
      [] u.op = "pathParts" -> [U EXCEPT !.g.pathParts = u.arg]
      [] u.op = "levDesc" -> [U EXCEPT !.g.levDesc = u.arg]
      [] u.op = "spanPrefix" -> [U EXCEPT !.g.spanPrefix = u.arg]

\* an update that leaves the loggers of the old table in the new one
shareLoggers(U, i) == U

RECURSIVE copyLoggers(_, _)
\* updateGlobals: "Copy all loggers so we can change the g pointer only in
\* the new copies", from table index i on
copyLoggers(U, i) ==
    IF i > nLevels THEN U
    ELSE IF U.g.lagers[i] = noop THEN copyLoggers(U, i + 1)
    ELSE LET lg == Append(U.loggers, U.loggers[U.g.lagers[i]])
         IN  copyLoggers([g |-> [U.g EXCEPT !.lagers[i] = Len(lg)],
                          loggers |-> lg], i + 1)

\* an update that leaves the g pointers as they were copied
pointNowhere(U, sid) == U.loggers

\* "Update the g pointer in all loggers to the new globals"
pointAt(U, sid) ==
    [j \in 1 .. Len(U.loggers) |->
        IF \E i \in 1 .. nLevels : U.g.lagers[i] = j
        THEN [U.loggers[j] EXCEPT !.g = sid]
        ELSE U.loggers[j]]

\* an update that copies the first snapshot, not the published one
updateStale(u, H) ==
    LET sid == Len(H.snaps) + 1
        U0 == copyLoggers([g |-> H.snaps[1], loggers |-> H.loggers], 1)
        U1 == applyUpdater(u, U0)
    IN  [H EXCEPT !.snaps = Append(@, U1.g),
                  !.loggers = pointAt(U1, sid),
                  !.cur = sid]

\* The body of updateGlobals between taking and releasing _globalsMutex,
\* on the heap H = [snaps, loggers, maps, cur]
updateGlobals(u, H) ==
    LET sid == Len(H.snaps) + 1
        U0 == copyLoggers([g |-> H.snaps[H.cur], loggers |-> H.loggers], 1)
        U1 == applyUpdater(u, U0)
    IN  [H EXCEPT !.snaps = Append(@, U1.g),
                  !.loggers = pointAt(U1, sid),
                  !.cur = sid]

\* the key scheme setRunningInGcp gives when LAGER_KEYS is empty
GcpKeys == keyStrs("time", "severity", "message", "data", "", "module")

\* SetLevelNotation(GcpLevelName) as setRunningInGcp(true) calls it
GcpNotation == Updater("levDesc", "gcp")

\* a call that cannot return: _firstInit.Do entered from inside firstInit
\* while the first Do has not returned
OnceBlocked == [blocked |-> "_firstInit.Do"]

\* firstInit() for an environment env = [levels, keys, spanPrefix, gcp]
\* whose LAGER_KEYS is empty or names six labels with the required ones
\* present, on the heap H.  With LAGER_GCP set, setRunningInGcp(true)(&g)
\* sets g.inGcp and, when LAGER_KEYS is empty, the GCP key scheme, and calls
\* SetLevelNotation(GcpLevelName), an updateGlobals of its own: it copies
\* and publishes the snapshot published before (g.levDesc stays as it is),
\* and firstInit's Store(&g) then replaces it.  That call begins with
\* _firstInit.Do; when nothing is published yet (firstInit runs under the
\* first Do) it cannot return.
firstInit(env, H) ==
    IF env.gcp # "" /\ H.cur = 0 THEN OnceBlocked
    ELSE
    LET sid == Len(H.snaps) + (IF env.gcp # "" THEN 2 ELSE 1)
        lg0 == H.loggers \o <<NewLogger(lPanic), NewLogger(lExit)>>
        g0 == [lagers |-> [i \in 1 .. nLevels |->
                              IF i - 1 = lPanic THEN Len(lg0) - 1
                              ELSE IF i - 1 = lExit THEN Len(lg0)
                              ELSE noop],
               keys |-> NoKeys,
               enabled |-> <<>>,
               dest |-> "",
               pathParts |-> DefaultPathParts,
               levDesc |-> "ident",
               inGcp |-> FALSE,
               spanPrefix |-> ""]
        U1 == setLevels(env.levels, [g |-> g0, loggers |-> lg0])
        U2 == [U1 EXCEPT !.g.spanPrefix =
                  IF env.spanPrefix = "" THEN "prog" ELSE env.spanPrefix]
        U3 == [g |-> U2.g, loggers |-> pointAt(U2, sid)]
        Ug == IF env.gcp # ""
              THEN [U3 EXCEPT !.g.inGcp = TRUE,
                              !.g.keys = IF env.keys = NoKeys THEN GcpKeys
                                         ELSE @]
              ELSE U3
        Hn == IF env.gcp # ""
              THEN updateGlobals(GcpNotation, [H EXCEPT !.loggers = Ug.loggers])
              ELSE [H EXCEPT !.loggers = Ug.loggers]
        U4 == IF env.keys # NoKeys THEN setKeys(env.keys, Ug) ELSE Ug
    IN  [Hn EXCEPT !.snaps = Append(@, U4.g),
                   !.cur = sid]

\* ContextPairs(ctx): a context is modelled by the AMap stored in it (0: none)
ContextPairs(ctx) == ctx

\* len(a.keys) for an AMap a that may be nil
mapLen(maps, a) == IF a = 0 THEN 0 ELSE Len(maps[a].keys)

\* index of key in keys, 0 when absent (the idx map of Merge and AddPairs)
idxOf(keys, key) ==
    IF \E j \in 1 .. Len(keys) : keys[j] = key
    THEN CHOOSE j \in 1 .. Len(keys) : keys[j] = key
    ELSE 0

RECURSIVE mergeLoop(_, _, _)
\* the loop of AMap.Merge over b's pairs from index i on; kv is the result
\* being built
mergeLoop(kv, b, i) ==
    IF i > Len(b.keys) THEN kv
    ELSE LET j == idxOf(kv.keys, b.keys[i])
         IN  IF j # 0
             THEN mergeLoop([kv EXCEPT !.vals[j] = b.vals[i]], b, i + 1)
             ELSE mergeLoop([keys |-> Append(kv.keys, b.keys[i]),
                             vals |-> Append(kv.vals, b.vals[i])], b, i + 1)

RECURSIVE Repeat(_, _)
\* the first n bytes of the string unit written over and over
Repeat(unit, n) ==
    IF n <= Len(unit) THEN SubSeq(unit, 1, n)
    ELSE unit \o Repeat(unit, n - Len(unit))

\* the bytes of a string value: those given for Text(s), else the first n
\* letters
TextOf(arg) ==
    IF arg.f # "" THEN arg.f ELSE Repeat("abcdefghijklmnopqrstuvwxyz", arg.n)

\* what fmt prints for a func, the address of its code, and for a pointer
\* below the top level, an address in the heap, as an amd64 build shows
\* them
FuncAddr(f) ==
    CASE f = "quick" -> "0x4a6f20"
      [] f = "never" -> "0x4a6f40"
      [] f = "emits" -> "0x4a6f60"
      [] OTHER -> "0x4a6f80"
PtrAddr == "0xc000012345"

RECURSIVE Sprint(_, _)
RECURSIVE SprintSeq(_)
\* fmt.Sprintf("%v", arg); depth is 0 for the argument itself and more for
\* what it holds.  A string prints as it is, an integer in decimal, nil as
\* <nil>, a func as its address, a slice as [a b c], a *KVPairs as
\* &{[keys] [vals]} at the top and as its address below, a sentinel (a
\* string type holding "") as nothing.
Sprint(arg, depth) ==
    CASE arg.k = "str" -> TextOf(arg)
      [] arg.k = "int" -> Repeat("1234567890", arg.n)
      [] arg.k = "nil" -> "<nil>"
      [] arg.k = "fn" -> FuncAddr(arg.f)
      [] arg.k \in {"list", "rawmap"} -> "[" \o SprintSeq(arg.items) \o "]"
      [] arg.k = "amap" ->
           IF depth > 0 THEN PtrAddr
           ELSE LET ks == [i \in 1 .. Len(arg.items) \div 2 |->
                              arg.items[2 * i - 1]]
                    vs == [i \in 1 .. Len(arg.items) \div 2 |->
                              arg.items[2 * i]]
                IN  "&{[" \o SprintSeq(ks) \o "] [" \o SprintSeq(vs) \o "]}"
      [] OTHER -> ""

\* the elements of a slice, each printed below the top level, with a space
\* between two of them
SprintSeq(items) ==
    IF items = <<>> THEN ""
    ELSE Sprint(Head(items), 1)
         \o (IF Len(items) > 1 THEN " " \o SprintSeq(Tail(items)) ELSE "")

\* lager.S(arg): a string is returned as it is, anything else is
\* fmt.Sprintf("%v", arg)
StringOf(arg) == IF arg.k = "str" THEN TextOf(arg) ELSE Sprint(arg, 0)

\* &KVPairs{}: a map without keys that is not nil
EmptyKV == [keys |-> <<>>, vals |-> <<>>]

RECURSIVE addKeepFirst(_, _, _)
\* a loop that leaves the value of a key already present alone
addKeepFirst(kv, toks, i) ==
    IF i >= (Len(toks) + 1) \div 2 THEN kv
    ELSE LET key == StringOf(toks[2 * i + 1])
             val == IF 2 * i + 2 <= Len(toks) THEN toks[2 * i + 2] ELSE Nil
         IN  IF idxOf(kv.keys, key) # 0
             THEN addKeepFirst(kv, toks, i + 1)
             ELSE addKeepFirst([keys |-> Append(kv.keys, key),
                                vals |-> Append(kv.vals, val)], toks, i + 1)

RECURSIVE addLoop(_, _, _)
\* the loop of AMap.AddPairs from index i (counted from 0) on; kv is the
\* result being built
addLoop(kv, toks, i) ==
    IF i >= (Len(toks) + 1) \div 2 THEN kv
    ELSE LET key == StringOf(toks[2 * i + 1])
             val == IF 2 * i + 2 <= Len(toks) THEN toks[2 * i + 2] ELSE Nil
             j == idxOf(kv.keys, key)
         IN  IF j # 0
             THEN addLoop([kv EXCEPT !.vals[j] = val], toks, i + 1)
             ELSE addLoop([keys |-> Append(kv.keys, key),
                           vals |-> Append(kv.vals, val)], toks, i + 1)

\* an AddPairs that writes into the receiver
addInPlace(maps, p, toks) ==
    IF Len(toks) = 0 \/ p = 0 THEN [maps |-> maps, r |-> p]
    ELSE [maps |-> [maps EXCEPT ![p] = addLoop(maps[p], toks, 0)], r |-> p]

\* p.AddPairs(pairs...) on the heap of maps: [maps, r] with r the AMap
\* returned
AMapAddPairs(maps, p, toks) ==
    IF Len(toks) = 0 THEN [maps |-> maps, r |-> p]
    ELSE [maps |-> Append(maps, addLoop(IF p = 0 THEN EmptyKV ELSE maps[p],
                                        toks, 0)),
          r |-> Len(maps) + 1]

\* Pairs(pairs...): AMap(nil).AddPairs(pairs...)
Pairs(maps, toks) == AMapAddPairs(maps, 0, toks)

\* p.InContext(ctx): a context is modelled by the AMap stored in it
InContext(p, ctx) == p

\* AddPairs(ctx, pairs...): [maps, r, fresh] with r the context returned and
\* fresh telling whether context.WithValue made it
AddPairs(maps, ctx, toks) ==
    IF Len(toks) = 0 THEN [maps |-> maps, r |-> ctx, fresh |-> FALSE]
    ELSE LET A == AMapAddPairs(maps, ContextPairs(ctx), toks)
         IN  [maps |-> A.maps, r |-> InContext(A.r, ctx), fresh |-> TRUE]

\* a Merge that always builds a new map
mergeCopies(maps, a, b) ==
    [maps |-> Append(maps, mergeLoop(IF a = 0 THEN EmptyKV ELSE maps[a],
                                     IF b = 0 THEN EmptyKV ELSE maps[b], 1)),
     r |-> Len(maps) + 1]

\* a.Merge(b) on the heap of maps: [maps, r] with r the AMap returned
Merge(maps, a, b) ==
    IF mapLen(maps, a) = 0 THEN [maps |-> maps, r |-> b]
    ELSE IF mapLen(maps, b) = 0 THEN [maps |-> maps, r |-> a]
    ELSE [maps |-> Append(maps, mergeLoop(maps[a], maps[b], 1)),
          r |-> Len(maps) + 1]

RECURSIVE withLoop(_, _, _)
\* the loop of logger.With over ctxs from index i on; M is [maps, r]
withLoop(M, ctxs, i) ==
    IF i > Len(ctxs) THEN M
    ELSE withLoop(Merge(M.maps, M.r, ContextPairs(ctxs[i])), ctxs, i + 1)

\* l.With(ctxs...) for a table entry or writer l (0 is noop, which returns
\* itself): [loggers, maps, r] with r the writer returned
With(loggers, maps, l, ctxs) ==
    IF l = noop THEN [loggers |-> loggers, maps |-> maps, r |-> noop]
    ELSE LET M == withLoop([maps |-> maps, r |-> loggers[l].kvp], ctxs, 1)
         IN  IF M.r = loggers[l].kvp
             THEN [loggers |-> loggers, maps |-> maps, r |-> l]
             ELSE [loggers |-> Append(loggers, [loggers[l] EXCEPT !.kvp = M.r]),
                   maps |-> M.maps,
                   r |-> Len(loggers) + 1]

\* Enabled() of a writer
Enabled(l) == l # noop

\* forLevel(lev, cs...) once _firstInit is done
forLevel(H, lev, cs) == With(H.loggers, H.maps, H.snaps[H.cur].lagers[lev + 1], cs)

(***************************************************************************)
(* Composing one line: logger.start, the emitting methods, logger.end.     *)
(* l is the logger record, g the snapshot l.g points at, kv the KVPairs    *)
(* l.kvp points at (the empty record when l.kvp is nil).                   *)
(***************************************************************************)
NoPairs == [keys |-> <<>>, vals |-> <<>>]

\* a choice of destination that keeps Panic and Exit on os.Stderr
stderrFirst(l, g) ==
    IF l.lev \in {lPanic, lExit} THEN "stderr"
    ELSE IF g.dest # "" THEN g.dest
    ELSE "stdout"

\* the destination logger.start picks
startDest(l, g) ==
    IF g.dest # "" THEN g.dest
    ELSE IF l.lev \in {lPanic, lExit} THEN "stderr"
    ELSE "stdout"

\* logger.start after the buffer was taken and b.w chosen
start(l, g) ==
    (IF g.keys = NoKeys THEN open(0, 1)
     ELSE open(0, 1) \o quote(0, Len(kWhen(g.keys))) \o colon)
    \o timestamp
    \o (IF g.keys # NoKeys THEN quote(comma, Len(kLev(g.keys))) \o colon
        ELSE <<>>)
    \o scalar(IF g.keys = NoKeys THEN comma ELSE 0,
              Str(Len(ApplyLevDesc(g.levDesc, LevelString(l.lev)))))

\* b.pair("json", 1) when l.g.inGcp and the writer has no context pairs
jsonPair(g, kv, cond) ==
    IF g.inGcp /\ cond /\ Len(kv.keys) = 0 THEN pair(comma, "json", Num(1))
    ELSE <<>>

\* the body of logger.List(args...)
List(g, kv, args) ==
    IF g.keys = NoKeys
    THEN IF Len(args) = 0 THEN <<W(4)>>
         ELSE IF Len(args) = 1 THEN scalar(comma, args[1])
         ELSE scalar(comma, AList(args))
    ELSE IF Len(args) = 1 /\ kMsg(g.keys) # ""
    THEN pair(comma, kMsg(g.keys), args[1]) \o jsonPair(g, kv, TRUE)
    ELSE pair(comma, kArgs(g.keys), AList(args))

\* the body of logger.MList(message, args...)
MList(g, kv, message, args) ==
    IF g.keys = NoKeys
    THEN IF Len(args) = 0 THEN scalar(comma, message)
         ELSE msgList(comma, message, args)
    ELSE IF kMsg(g.keys) # ""
    THEN pair(comma, kMsg(g.keys), message)
         \o (IF 0 < Len(args) THEN pair(comma, kArgs(g.keys), AList(args))
             ELSE jsonPair(g, kv, TRUE))
    ELSE IF 0 < Len(args)
    THEN quote(comma, Len(kArgs(g.keys))) \o colon \o msgList(0, message, args)
    ELSE pair(comma, kArgs(g.keys), AList(<<message>>))

\* the body of logger.Map(pairs...)
Map(g, kv, prs) ==
    IF g.keys = NoKeys THEN scalarRawMap(comma, prs)
    ELSE rawPairs(comma, prs)

\* the body of logger.MMap(message, pairs...)
MMap(g, kv, message, prs) ==
    IF g.keys = NoKeys
    THEN scalar(comma, message)
         \o (IF 0 < Len(prs) THEN scalarRawMap(comma, prs) ELSE <<>>)
    ELSE pair(comma, IF kMsg(g.keys) = "" THEN "msg" ELSE kMsg(g.keys), message)
         \o rawPairs(comma, prs)
         \o jsonPair(g, kv, Len(prs) = 0)

\* an end of line that aborts before it unlocks
abortFirst == <<Abort, Unl, Put>>

\* logger.end after the closing bracket: b.unlock(); bufPool.Put(b); the
\* switch on l.lev
finish == <<Unl, Put, Abort>>

\* the frames WithStack finds: one string of 12 bytes
AStack == AList(<<Str(12)>>)

\* l.WithStack(2, 0) as logger.end calls it, on the pairs of l.kvp:
\* cp.kvp.Merge(Pairs("_stack", stack))
endStack(kv) ==
    IF Len(kv.keys) = 0 THEN [keys |-> <<"_stack">>, vals |-> <<AStack>>]
    ELSE mergeLoop(kv, [keys |-> <<"_stack">>, vals |-> <<AStack>>], 1)

\* logger.end, stackWithExit being what it loads from _stackWithExit: an
\* Exit line gets the stack among its context pairs when that is not 0;
\* then context pairs, module, closing bracket, finish
end(l, g, kv, stackWithExit) ==
    LET kv2 == IF l.lev = lExit /\ stackWithExit # 0 THEN endStack(kv) ELSE kv
    IN  (IF 0 < Len(kv2.keys)
         THEN IF g.keys = NoKeys THEN scalarAMap(comma, kv2)
              ELSE IF kCtx(g.keys) = "" THEN pairs(comma, kv2)
              ELSE quote(comma, Len(kCtx(g.keys))) \o colon
                   \o scalarAMap(0, kv2)
         ELSE <<>>)
        \o (IF l.mod # ""
            THEN IF g.keys = NoKeys THEN quote(comma, 4 + Len(l.mod))
                 ELSE pair(comma, kMod(g.keys), Str(Len(l.mod)))
            ELSE <<>>)
        \o close(2)
        \o finish

\* logger.end(b) about to run for an Exit line: its first step reads
\* _stackWithExit, which other goroutines write
EndOp(l, g, kv) ==
    [o |-> "end", n |-> 0, f |-> "", l |-> l, g |-> g, kv |-> kv]

\* An emitting call: method m, message msg (a Str, for MList and MMap),
\* arguments or pairs args, and what runtime.Callers finds for the C
\* methods (line = 0: no frame)
EmitCall(m, msg, args, caller) ==
    [m |-> m, msg |-> msg, args |-> args, caller |-> caller]

Methods ==
    {"List", "CList", "MList", "CMList", "Map", "CMap", "MMap", "CMMap",
     "Println"}

CMethods == {"CList", "CMList", "CMap", "CMMap"}

\* the method a C method or Println forwards to
baseMethod(m) ==
    CASE m \in {"List", "CList", "Println"} -> "List"
      [] m \in {"MList", "CMList"} -> "MList"
      [] m \in {"Map", "CMap"} -> "Map"
      [] m \in {"MMap", "CMMap"} -> "MMap"

\* Pairs("_file", file, "_line", line, "_func", fn)
callerPairs(c) ==
    [keys |-> <<"_file", "_line", "_func">>,
     vals |-> <<Str(c.file), Num(c.line), Str(c.fn)>>]

\* l.WithCaller(depth) on the heaps: [loggers, maps, r]
WithCaller(loggers, maps, l, c) ==
    IF l = noop \/ c.line = 0 THEN [loggers |-> loggers, maps |-> maps, r |-> l]
    ELSE LET m1 == Append(maps, callerPairs(c))
             M == Merge(m1, loggers[l].kvp, Len(m1))
         IN  [loggers |-> Append(loggers, [loggers[l] EXCEPT !.kvp = M.r]),
              maps |-> M.maps,
              r |-> Len(loggers) + 1]

\* a WithStack that turns the no-op into the first logger of the heap
withStackActive(loggers, maps, l, stack) ==
    [loggers |-> loggers, maps |-> maps, r |-> IF l = noop THEN 1 ELSE l]

\* l.WithStack(minDepth, stackLen) on the heaps, stack being the frames
\* found: [loggers, maps, r]
WithStack(loggers, maps, l, stack) ==
    IF l = noop THEN [loggers |-> loggers, maps |-> maps, r |-> l]
    ELSE LET m1 == Append(maps, [keys |-> <<"_stack">>, vals |-> <<stack>>])
             M == Merge(m1, loggers[l].kvp, Len(m1))
         IN  [loggers |-> Append(loggers, [loggers[l] EXCEPT !.kvp = M.r]),
              maps |-> M.maps,
              r |-> Len(loggers) + 1]

\* all the buffer operations of one emitting call on logger l, start to
\* end; a line of another level than Exit does not read _stackWithExit
lineOps(l, g, kv, c) ==
    start(l, g)
    \o (CASE baseMethod(c.m) = "List" -> List(g, kv, c.args)
          [] baseMethod(c.m) = "MList" -> MList(g, kv, c.msg, c.args)
          [] baseMethod(c.m) = "Map" -> Map(g, kv, c.args)
          [] baseMethod(c.m) = "MMap" -> MMap(g, kv, c.msg, c.args))
    \o (IF l.lev = lExit THEN <<EndOp(l, g, kv)>> ELSE end(l, g, kv, 0))

(***************************************************************************)
(* Bounds of the model                                                     *)
(***************************************************************************)
\* goroutines that log
NEmitters == 2
\* of them, goroutines that log lines with deferred values
NCallers == 1
\* emitting calls made in all
MaxLines == 2
\* deferred values called in all (each runs on a goroutine slot of its own)
MaxCalls == 1
\* configuration updates made in all
MaxUpdates == 2
\* calls of ExitViaPanic made in all
MaxExiters == 1
\* writers derived with With, WithCaller, WithStack in all
MaxDerives == 1
\* characters of the strings given to Init
MaxLen == 3

Emitters == 1 .. NEmitters
Callers == 1 .. NCallers
Helpers == (NEmitters + 1) .. (NEmitters + MaxCalls)
Procs == Emitters \cup Helpers

(***************************************************************************)
(* State                                                                   *)
(***************************************************************************)
VARIABLES
    snaps,      \* every globals struct ever built, by index
    loggers,    \* every logger struct ever built, by index
    maps,       \* every KVPairs ever built, by index
    cur,        \* _globals: index of the published snapshot, 0 before any
    once,       \* _firstInit: "no" or "done"
    gmu,        \* _globalsMutex: the goroutine holding it, 0 when free
    nupd,       \* configuration updates started so far
    exiters,    \* _exiters
    stackWithExit,  \* _stackWithExit
    env,        \* the environment firstInit reads
    proc,       \* per goroutine: position, buffer, writer held
    mu,         \* outMu: w the writer holding or announced, r the readers
    pool,       \* buffers bufPool has allocated (its New)
    out,        \* every Write call made on a destination, in order
    lines,      \* per goroutine, the lines it started: where to, locks
                \* taken, deferred values encoded
    exited      \* os.Exit status, -1 while the process runs

heapVars == <<snaps, loggers, maps, cur, once>>
cfgVars == <<gmu, nupd, exiters, stackWithExit, env>>
outVars == <<proc, mu, pool, out, lines, exited>>
vars == <<snaps, loggers, maps, cur, once, gmu, nupd, exiters, stackWithExit, env,
          proc, mu, pool, out, lines, exited>>

\* the heap as one record
Heap == [snaps |-> snaps, loggers |-> loggers, maps |-> maps, cur |-> cur]

\* firstInit: LAGER_KEYS is unset, or splits into six labels with those for
\* when, lev, args and mod not blank (k is strings.Split(k, ","))
KeysOk(k) ==
    \/ k = NoKeys
    \/ Len(k) = 6 /\ k[1] # "" /\ k[2] # "" /\ k[4] # "" /\ k[6] # ""

\* firstInit under _firstInit.Do returns: it calls neither
\* SetLevelNotation (LAGER_GCP set) nor Exit() (LAGER_KEYS malformed), which
\* both begin with _firstInit.Do
InitReturns(e) == e.gcp = "" /\ KeysOk(e.keys)

\* _firstInit.Do(firstInit) returns: firstInit has run, or runs now and
\* returns
CanGet == once = "done" \/ (once = "no" /\ InitReturns(env))

\* getGlobals(): _firstInit.Do(firstInit), then the published snapshot
getGlobals(H) == IF once = "no" THEN firstInit(env, H) ELSE H

NoUpdater == Updater("", "")

\* a line is named by its goroutine and its rank among that goroutine's
NoLine == <<0, 0>>

\* the history entry of line id
LineOf(id) == lines[id[1]][id[2]]

\* a goroutine that is not logging
Idle ==
    [pc |-> "idle", ops |-> <<>>, len |-> 0, pos |-> 0, locked |-> FALSE,
     line |-> NoLine, held |-> -1, sid |-> 0, nd |-> 0,
     w |-> "", lev |-> -1, n |-> 0, buf |-> FALSE,
     child |-> 0, parent |-> 0, pline |-> NoLine, under |-> FALSE,
     kind |-> "", pv |-> "",
     upd |-> NoUpdater, made |-> 0, priors |-> {}, call |-> <<>>]

(***************************************************************************)
(* The buffer: what one goroutine does on its own between two steps that   *)
(* other goroutines can see (taking or releasing outMu, a Write on the     *)
(* destination, calling a deferred value, the load of _stackWithExit,      *)
(* bufPool.Put, the abort).                                                *)
(***************************************************************************)
\* drop the operation just finished
pop(s) == [s EXCEPT !.ops = Tail(@), !.pc = "run"]

\* append n bytes to b.buf
append(s, n) == [s EXCEPT !.len = @ + n, !.pos = @ + n]

\* a lock() that goes on without outMu.Lock()
lockWithoutMutex(s) == [s EXCEPT !.pc = "inlock"]

\* buffer.lock() up to outMu.Lock(): "lock" asks for the mutex, "inlock" is
\* past it
lock(s) == IF ~s.locked THEN [s EXCEPT !.pc = "lock"]
           ELSE [s EXCEPT !.pc = "inlock"]

\* a lock() that takes the mutex and leaves b.buf as it is
lockKeepsBuffer(s) == [s EXCEPT !.pc = "lockret"]

\* buffer.lock() after the mutex: flush b.buf if it holds anything
lockFlush(s) == IF 0 < s.len THEN [s EXCEPT !.pc = "flush"]
                ELSE [s EXCEPT !.pc = "lockret"]

\* buffer.write / writeBytes of one string, first test:
\* cap(b.buf) < len(b.buf)+len(s)
write(s, n) == IF ScratchCap < s.len + n THEN lock(s)
               ELSE [s EXCEPT !.pc = "store"]

\* buffer.write / writeBytes, second test: cap(b.buf) < len(s)
store(s, n) == IF ScratchCap < n THEN [s EXCEPT !.pc = "direct"]
               ELSE pop(append(s, n))

\* a scalar() that keeps twice the room free
reserveTwice(s) == IF ScratchCap < s.len + 2 * Reserve THEN lock(s) ELSE pop(s)

\* scalar(): if cap(b.buf) < len(b.buf)+64 { b.lock() }
reserve(s) == IF ScratchCap < s.len + Reserve THEN lock(s) ELSE pop(s)

\* an unlock() that writes without outMu.RLock()
unlockWithoutRLock(s) == [s EXCEPT !.pc = "inunlock"]

\* buffer.unlock() up to outMu.RLock()
unlock(s) == IF ~s.locked THEN [s EXCEPT !.pc = "rlock"]
             ELSE [s EXCEPT !.pc = "inunlock"]

\* buffer.unlock() once the lock is held: the final Write, then the release
unlockFlush(s) == IF 0 < s.len THEN [s EXCEPT !.pc = "final"]
                  ELSE [s EXCEPT !.pc = "rel"]

\* logger.end: the switch on l.lev; a line of another level returns to its
\* caller (a deferred value that logged goes on to return)
abort(s) ==
    IF s.lev \in {lPanic, lExit} THEN [s EXCEPT !.pc = "abort"]
    ELSE [s EXCEPT !.ops = <<>>,
                   !.pc = IF s.parent # 0 THEN "fnrun" ELSE "idle"]

\* whether the goroutine is at a step other goroutines can see
Visible(s) == s.pc \notin {"run", "inlock", "lockret", "store", "inunlock"}

\* one local step of the goroutine in state s
Step1(s) ==
    CASE s.pc = "run" ->
           LET op == Head(s.ops)
           IN  (CASE op.o = "w" -> write(s, op.n)
                  [] op.o = "raw" -> pop(append(s, op.n))
                  [] op.o = "res" -> reserve(s)
                  [] op.o = "fn" -> [s EXCEPT !.pc = "call"]
                  [] op.o = "u" -> unlock(s)
                  [] op.o = "end" -> [s EXCEPT !.pc = "end"]
                  [] op.o = "put" -> [s EXCEPT !.pc = "put"]
                  [] op.o = "abort" -> abort(s))
      [] s.pc = "inlock" -> lockFlush(s)
      [] s.pc = "lockret" ->
           IF Head(s.ops).o = "w" THEN [s EXCEPT !.pc = "store"] ELSE pop(s)
      [] s.pc = "store" -> store(s, Head(s.ops).n)
      [] s.pc = "inunlock" -> unlockFlush(s)
      [] OTHER -> s

RECURSIVE RunFor(_, _)
\* at most n0 local steps from state s0, stopping at a visible step (the
\* arguments are evaluated once; the steps are taken half by half)
RunFor(s0, n0) ==
    CHOOSE r \in
        {IF n = 0 \/ Visible(s) THEN s
         ELSE IF n = 1 THEN Step1(s)
         ELSE RunFor(RunFor(s, n \div 2), n - (n \div 2)) :
             s \in {s0}, n \in {n0}} : TRUE

\* run the goroutine up to its next visible step; an operation takes at
\* most four local steps
Run(s) == RunFor(s, 4 * Len(s.ops) + 4)

(***************************************************************************)
(* Steps                                                                   *)
(***************************************************************************)
Running == exited = -1

\* what the history keeps of a line: the goroutine, the writer's level and
\* snapshot, the destination, exclusive (x) and shared (r) acquisitions of
\* outMu, the deferred values encoded (enc), the bytes its operations
\* append apart from deferred values (size), the length once complete
NewLine(p, l, g, ops) ==
    [p |-> p, lev |-> l.lev, g |-> l.g, w |-> startDest(l, g),
     keys |-> g.keys, levName |-> ApplyLevDesc(g.levDesc, LevelString(l.lev)),
     x |-> 0, r |-> 0, enc |-> <<>>, size |-> OpsLen(ops),
     done |-> FALSE, total |-> 0]

\* deferred values among a sequence of buffer operations
FnCount(ops) == Cardinality({i \in 1 .. Len(ops) : ops[i].o = "fn"})

\* goroutine slots not yet used for a deferred value
FreeSlots == {h \in Helpers : proc[h].pc = "off"}

\* slots the lines under way still need
PendingCalls ==
    LET RECURSIVE sum(_)
        sum(S) == IF S = {} THEN 0
                  ELSE LET q == CHOOSE q \in S : TRUE
                       IN  FnCount(proc[q].ops) + sum(S \ {q})
    IN  sum(Procs)

\* buffers of bufPool not in use
IdleBufs == pool - Cardinality({q \in Procs : proc[q].buf})

\* bufPool.Get(): what bufPool has allocated after it.  New runs when no
\* buffer is idle; a sync.Pool may also have dropped the buffers put back,
\* so New can run although one was returned
Get == IF IdleBufs > 0 THEN {pool, pool + 1} ELSE {pool + 1}

\* emitting calls made so far
Emitted ==
    LET RECURSIVE sum(_)
        sum(S) == IF S = {} THEN 0
                  ELSE LET q == CHOOSE q \in S : TRUE
                       IN  proc[q].n + sum(S \ {q})
    IN  sum(Emitters)

\* the history of lines once goroutine state s2 is reached: a line whose
\* method has returned is complete
Settle(ls, s2) ==
    LET p == s2.line[1]
        k == s2.line[2]
    IN  IF s2.line # NoLine /\ s2.ops = <<>> /\ ~ls[p][k].done
        THEN [ls EXCEPT ![p][k].done = TRUE, ![p][k].total = s2.pos]
        ELSE ls

\* the writer h begins a line for call c: the state of goroutine s after
\* logger.start .. logger.end have run up to the first visible step, with
\* the heaps the C methods' WithCaller leaves
beginLine(p, s, sn, lg, mp, h, c) ==
    LET Wc == IF c.m \in CMethods THEN WithCaller(lg, mp, h, c.caller)
              ELSE [loggers |-> lg, maps |-> mp, r |-> h]
        l == Wc.loggers[Wc.r]
        g == sn[l.g]
        kv == IF l.kvp = 0 THEN NoPairs ELSE Wc.maps[l.kvp]
        ops == lineOps(l, g, kv, c)
    IN  [loggers |-> Wc.loggers,
         maps |-> Wc.maps,
         line |-> NewLine(p, l, g, ops),
         s |-> Run([s EXCEPT !.pc = "run", !.ops = ops,
                             !.len = 0, !.pos = 0, !.locked = FALSE,
                             !.line = <<p, Len(lines[p]) + 1>>,
                             !.w = startDest(l, g), !.lev = l.lev,
                             !.buf = TRUE])]

\* p calls an emitting method of the writer it holds
Emit(p, c) ==
    /\ Running
    /\ proc[p].pc = "idle" /\ proc[p].held # -1 /\ Emitted < MaxLines
    /\ UNCHANGED <<snaps, cur, once, cfgVars, mu, out, exited>>
    /\ IF ~Enabled(proc[p].held)
       THEN /\ proc' = [proc EXCEPT ![p].n = @ + 1]
            /\ UNCHANGED <<loggers, maps, pool, lines>>
       ELSE LET B == beginLine(p, [proc[p] EXCEPT !.n = @ + 1],
                               snaps, loggers, maps, proc[p].held, c)
            IN  /\ FnCount(B.s.ops) + PendingCalls <= Cardinality(FreeSlots)
                /\ loggers' = B.loggers
                /\ maps' = B.maps
                /\ pool' \in Get
                /\ lines' = Settle([lines EXCEPT ![B.line.p] = Append(@, B.line)], B.s)
                /\ proc' = [proc EXCEPT ![p] = B.s]

\* p obtains a writer: lager.Fail(ctxs...) and the like
Obtain(p, lev, cs) ==
    /\ Running /\ CanGet
    /\ proc[p].pc = "idle" /\ Emitted < MaxLines
    /\ LET H == getGlobals(Heap)
           Wr == forLevel(H, lev, cs)
       IN  /\ snaps' = H.snaps
           /\ cur' = H.cur
           /\ once' = "done"
           /\ loggers' = Wr.loggers
           /\ maps' = Wr.maps
           /\ proc' = [proc EXCEPT ![p].held = Wr.r, ![p].sid = H.cur]
    /\ UNCHANGED <<cfgVars, mu, pool, out, lines, exited>>

\* p logs in one statement: lager.Fail(ctxs...).List(...)
Log(p, lev, cs, c) ==
    /\ Running /\ CanGet
    /\ proc[p].pc = "idle" /\ Emitted < MaxLines
    /\ LET H == getGlobals(Heap)
           Wr == forLevel(H, lev, cs)
       IN  /\ snaps' = H.snaps
           /\ cur' = H.cur
           /\ once' = "done"
           /\ IF ~Enabled(Wr.r)
              THEN /\ proc' = [proc EXCEPT ![p].n = @ + 1, ![p].held = Wr.r,
                                           ![p].sid = H.cur]
                   /\ loggers' = Wr.loggers
                   /\ maps' = Wr.maps
                   /\ UNCHANGED <<pool, lines>>
              ELSE LET B == beginLine(p, [proc[p] EXCEPT !.n = @ + 1,
                                                         !.held = Wr.r,
                                                         !.sid = H.cur],
                                      H.snaps, Wr.loggers, Wr.maps, Wr.r, c)
                   IN  /\ FnCount(B.s.ops) + PendingCalls
                              <= Cardinality(FreeSlots)
                       /\ loggers' = B.loggers
                       /\ maps' = B.maps
                       /\ pool' \in Get
                       /\ lines' = Settle([lines EXCEPT ![B.line.p] = Append(@, B.line)], B.s)
                       /\ proc' = [proc EXCEPT ![p] = B.s]
    /\ UNCHANGED <<cfgVars, mu, out, exited>>

\* buffer.lock(): outMu.Lock() announces the writer; it holds the lock once
\* no reader is left
AcquireX(p) ==
    /\ Running
    /\ proc[p].pc = "lock"
    /\ mu.w = 0
    /\ mu' = [mu EXCEPT !.w = p]
    /\ IF mu.r = {}
       THEN /\ proc' = [proc EXCEPT ![p] =
                           Run([@ EXCEPT !.locked = TRUE, !.pc = "inlock"])]
            /\ lines' = [lines EXCEPT ![p][Len(lines[p])].x = @ + 1]
       ELSE /\ proc' = [proc EXCEPT ![p].pc = "lockw"]
            /\ UNCHANGED lines
    /\ UNCHANGED <<heapVars, cfgVars, pool, out, exited>>

\* outMu.Lock() returns once the readers have left
GrantX(p) ==
    /\ Running
    /\ proc[p].pc = "lockw"
    /\ mu.r = {}
    /\ proc' = [proc EXCEPT ![p] =
                   Run([@ EXCEPT !.locked = TRUE, !.pc = "inlock"])]
    /\ lines' = [lines EXCEPT ![p][Len(lines[p])].x = @ + 1]
    /\ UNCHANGED <<heapVars, cfgVars, mu, pool, out, exited>>

\* the Write call record for the buffered bytes of p's line
bufWrite(s) == [w |-> s.w, line |-> s.line, from |-> s.pos - s.len, to |-> s.pos]

\* buffer.lock(): b.w.Write(b.buf); b.buf = b.scratch[0:0]
Flush(p) ==
    /\ Running
    /\ proc[p].pc = "flush"
    /\ out' = Append(out, bufWrite(proc[p]))
    /\ proc' = [proc EXCEPT ![p] = Run([@ EXCEPT !.len = 0, !.pc = "lockret"])]
    /\ UNCHANGED <<heapVars, cfgVars, mu, pool, lines, exited>>

\* buffer.write: io.WriteString(b.w, s) for a chunk larger than the scratch
Direct(p) ==
    /\ Running
    /\ proc[p].pc = "direct"
    /\ LET n == Head(proc[p].ops).n
       IN  /\ out' = Append(out, [w |-> proc[p].w, line |-> proc[p].line,
                                  from |-> proc[p].pos,
                                  to |-> proc[p].pos + n])
           /\ proc' = [proc EXCEPT ![p] = Run(pop([@ EXCEPT !.pos = @ + n]))]
    /\ UNCHANGED <<heapVars, cfgVars, mu, pool, lines, exited>>

\* buffer.unlock(): outMu.RLock(), which waits while a writer holds the lock
\* or has announced itself
AcquireR(p) ==
    /\ Running
    /\ proc[p].pc = "rlock"
    /\ mu.w = 0
    /\ mu' = [mu EXCEPT !.r = @ \cup {p}]
    /\ proc' = [proc EXCEPT ![p] = Run([@ EXCEPT !.pc = "inunlock"])]
    /\ lines' = [lines EXCEPT ![p][Len(lines[p])].r = @ + 1]
    /\ UNCHANGED <<heapVars, cfgVars, pool, out, exited>>

\* buffer.unlock(): b.w.Write(b.buf); b.buf = b.scratch[0:0]
Final(p) ==
    /\ Running
    /\ proc[p].pc = "final"
    /\ out' = Append(out, bufWrite(proc[p]))
    /\ proc' = [proc EXCEPT ![p].len = 0, ![p].pc = "rel"]
    /\ UNCHANGED <<heapVars, cfgVars, mu, pool, lines, exited>>

\* buffer.unlock(): b.locked = false; outMu.Unlock(), or the deferred
\* outMu.RUnlock(); the buffer is still the goroutine's
Release(p) ==
    /\ Running
    /\ proc[p].pc = "rel"
    /\ mu' = IF proc[p].locked THEN [mu EXCEPT !.w = 0]
             ELSE [mu EXCEPT !.r = @ \ {p}]
    /\ \E s2 \in {Run(pop([proc[p] EXCEPT !.locked = FALSE]))} :
           /\ proc' = [proc EXCEPT ![p] = s2]
           /\ lines' = Settle(lines, s2)
    /\ UNCHANGED <<heapVars, cfgVars, pool, out, exited>>

\* logger.end of an Exit line: atomic.LoadInt32(&_stackWithExit), then the
\* context pairs, the module and the closing bracket go to the buffer
LoadStackWithExit(p) ==
    /\ Running
    /\ proc[p].pc = "end"
    /\ LET op == Head(proc[p].ops)
           ops2 == end(op.l, op.g, op.kv, stackWithExit)
           id == proc[p].line
       IN  \E s2 \in {Run([proc[p] EXCEPT !.ops = ops2 \o Tail(@),
                                          !.pc = "run"])} :
               /\ proc' = [proc EXCEPT ![p] = s2]
               /\ lines' = Settle([lines EXCEPT ![id[1]][id[2]].size =
                                      @ + OpsLen(ops2)], s2)
    /\ UNCHANGED <<heapVars, cfgVars, mu, pool, out, exited>>

\* logger.end: bufPool.Put(b), after unlock() has returned
PutBuf(p) ==
    /\ Running
    /\ proc[p].pc = "put"
    /\ \E s2 \in {Run(pop([proc[p] EXCEPT !.buf = FALSE]))} :
           /\ proc' = [proc EXCEPT ![p] = s2]
           /\ lines' = Settle(lines, s2)
    /\ UNCHANGED <<heapVars, cfgVars, mu, pool, out, exited>>

\* logger.end for a Panic or Exit line: os.Exit(1) when no ExitViaPanic is
\* pending, else panic(_panicToExit); panic("lager.Panic() logged ...")
AbortStep(p) ==
    /\ Running
    /\ proc[p].pc = "abort"
    /\ lines' = [lines EXCEPT ![p][Len(lines[p])].done = TRUE,
                              ![p][Len(lines[p])].total = proc[p].pos]
    /\ IF proc[p].lev = lExit /\ exiters = 0
       THEN /\ exited' = ExitStatus
            /\ proc' = [proc EXCEPT ![p].pc = "exited", ![p].ops = Tail(@)]
       ELSE /\ exited' = exited
            /\ proc' = [proc EXCEPT
                  ![p].ops = Tail(@),
                  ![p].pv = IF proc[p].lev = lExit THEN "exit" ELSE "panic",
                  ![p].pc = "panicked"]
    /\ UNCHANGED <<heapVars, cfgVars, mu, pool, out>>

(***************************************************************************)
(* Deferred values.  A func() interface{} is one of: "quick" (returns its  *)
(* value after some time), "never" (does not return), "emits" (logs a line *)
(* of its own, then returns).  Each call runs on a goroutine slot of its   *)
(* own; a synchronous call is the caller waiting for that slot to return.  *)
(***************************************************************************)
FnKinds == {"quick", "never", "emits"}

\* the string every deferred value of the model returns
FnValue == "okay"

\* what a deferred value that logs does: lager.Fail().List("deadlock")
InnerLev == lFail
InnerCall == EmitCall("List", Nil, <<Str(8)>>, [file |-> 0, line |-> 0, fn |-> 0])

\* a timeBoxedCall that always races the call against the timer
alwaysTimed(s) == "wait"

\* a timeBoxedCall that never does
neverTimed(s) == "sync"

\* buffer.timeBoxedCall: a plain call unless the line holds the lock, else a
\* select between the value and time.After(10ms)
timeBoxedCall(s) == IF ~s.locked THEN "sync" ELSE "wait"

\* the goroutine slot the next call runs on
NextSlot == CHOOSE h \in FreeSlots : \A h2 \in FreeSlots : h <= h2

\* scalar(): s = b.timeBoxedCall(f), up to f being running
CallFn(p) ==
    /\ Running
    /\ proc[p].pc = "call"
    /\ FreeSlots # {}
    /\ LET h == NextSlot
           f == Head(proc[p].ops).f
       IN  proc' = [proc EXCEPT
               ![p].pc = timeBoxedCall(proc[p]),
               ![p].child = h,
               ![h] = [Idle EXCEPT !.parent = p, !.kind = f,
                                   !.pline = proc[p].line,
                                   !.under = proc[p].locked,
                                   !.pc = CASE f = "quick" -> "fnrun"
                                            [] f = "never" -> "hang"
                                            [] f = "emits" -> "fnemit"]]
    /\ UNCHANGED <<heapVars, cfgVars, mu, pool, out, lines, exited>>

\* a deferred value that logs reaches its lager.Fail().List(...)
FnEmit(h) ==
    /\ Running /\ CanGet
    /\ proc[h].pc = "fnemit"
    /\ \E H \in {getGlobals(Heap)} : \E Wr \in {forLevel(H, InnerLev, <<>>)} :
           /\ snaps' = H.snaps
           /\ cur' = H.cur
           /\ once' = "done"
           /\ IF ~Enabled(Wr.r)
              THEN /\ proc' = [proc EXCEPT ![h].pc = "fnrun"]
                   /\ loggers' = Wr.loggers
                   /\ maps' = Wr.maps
                   /\ UNCHANGED <<pool, lines>>
              ELSE \E B \in {beginLine(h, proc[h], H.snaps, Wr.loggers,
                                        Wr.maps, Wr.r, InnerCall)} :
                       /\ loggers' = B.loggers
                       /\ maps' = B.maps
                       /\ pool' \in Get
                       /\ lines' = Settle([lines EXCEPT ![B.line.p] = Append(@, B.line)], B.s)
                       /\ proc' = [proc EXCEPT ![h] = B.s]
    /\ UNCHANGED <<cfgVars, mu, out, exited>>

\* the deferred value returns (under timeBoxedCall its value goes into the
\* channel, which has room for it)
FnReturn(h) ==
    /\ Running
    /\ proc[h].pc = "fnrun"
    /\ proc' = [proc EXCEPT ![h].pc = "ret"]
    /\ UNCHANGED <<heapVars, cfgVars, mu, pool, out, lines, exited>>

\* what the history keeps of an encoded deferred value: the slot, how it was
\* awaited, what was encoded, and whether the value had been returned when
\* the wait ended
Encoded(p, got) ==
    [h |-> proc[p].child, mode |-> proc[p].pc, got |-> got,
     returned |-> proc[proc[p].child].pc = "ret",
     locked |-> proc[p].locked]

\* the rest of scalar() once timeBoxedCall has returned a string of n bytes
afterCall(s, n) ==
    Run([s EXCEPT !.pc = "run", !.child = 0,
                  !.ops = scalarAfterCall(Head(@).n, n) \o Tail(@)])

\* timeBoxedCall: case value = <-values
SelectValue(p) ==
    /\ Running
    /\ proc[p].pc = "wait"
    /\ proc[proc[p].child].pc = "ret"
    /\ lines' = [lines EXCEPT ![p][Len(lines[p])].enc =
                    Append(@, Encoded(p, "value"))]
    /\ proc' = [proc EXCEPT ![p] = afterCall(@, Len(FnValue)),
                            ![proc[p].child].pc = "gone"]
    /\ UNCHANGED <<heapVars, cfgVars, mu, pool, out, exited>>

\* timeBoxedCall: case <-timeouts, once time.After(10 * time.Millisecond)
\* has fired
SelectTimeout(p) ==
    /\ Running
    /\ proc[p].pc = "wait"
    /\ lines' = [lines EXCEPT ![p][Len(lines[p])].enc =
                    Append(@, Encoded(p, "placeholder"))]
    /\ proc' = [proc EXCEPT ![p] = afterCall(@, Len(Placeholder))]
    /\ UNCHANGED <<heapVars, cfgVars, mu, pool, out, exited>>

\* timeBoxedCall: return f() when the lock is not held
SyncReturn(p) ==
    /\ Running
    /\ proc[p].pc = "sync"
    /\ proc[proc[p].child].pc = "ret"
    /\ lines' = [lines EXCEPT ![p][Len(lines[p])].enc =
                    Append(@, Encoded(p, "value"))]
    /\ proc' = [proc EXCEPT ![p] = afterCall(@, Len(FnValue)),
                            ![proc[p].child].pc = "gone"]
    /\ UNCHANGED <<heapVars, cfgVars, mu, pool, out, exited>>

(***************************************************************************)
(* Configuration updates                                                   *)
(***************************************************************************)
\* Init(levels)
InitU(levels) == Updater("setLevels", levels)

\* Keys(when, lev, msg, args, ctx, mod) for labels that are all empty or
\* have when, lev, args and mod present
KeysU(k) ==
    IF \A i \in 1 .. 6 : k[i] = "" THEN Updater("setKeys", NoKeys)
    ELSE Updater("setKeys", k)

\* SetOutput(writer); "" is nil
SetOutputU(w) == Updater("dest", w)

\* SetPathParts(pathParts)
SetPathPartsU(n) == Updater("pathParts", n)

\* SetLevelNotation(mapper); "" is nil
SetLevelNotationU(f) == Updater("levDesc", IF f = "" THEN "ident" ELSE f)

\* SetSpanPrefix(prefix)
SetSpanPrefixU(x) == Updater("spanPrefix", x)

\* updateGlobals: _firstInit.Do(firstInit), then wait for _globalsMutex
ConfigCall(p, u) ==
    /\ Running /\ CanGet
    /\ proc[p].pc = "idle"
    /\ nupd < MaxUpdates
    /\ nupd' = nupd + 1
    /\ LET H == getGlobals(Heap)
       IN  /\ snaps' = H.snaps
           /\ loggers' = H.loggers
           /\ cur' = H.cur
           /\ once' = "done"
    /\ proc' = [proc EXCEPT ![p].pc = "updlock", ![p].upd = u]
    /\ UNCHANGED <<maps, gmu, exiters, stackWithExit, env, mu, pool, out, lines, exited>>

\* the function SetOutput returned is called: it sets g.dest = prior
Restore(p, d) ==
    /\ d \in proc[p].priors
    /\ ConfigCall(p, Updater("restore", d))

\* updateGlobals: AutoLock(&_globalsMutex)
UpdLock(p) ==
    /\ Running
    /\ proc[p].pc = "updlock"
    /\ gmu = 0
    /\ gmu' = p
    /\ proc' = [proc EXCEPT ![p].pc = "upd"]
    /\ UNCHANGED <<heapVars, nupd, exiters, stackWithExit, env, mu, pool, out, lines, exited>>

\* updateGlobals: copy, updater(&copy), _globals.Store(&copy), and the
\* deferred Unlock; SetOutput's updater also keeps the dest it replaced
UpdApply(p) ==
    /\ Running
    /\ proc[p].pc = "upd"
    /\ proc[p].upd.op # "gcp"
    /\ LET H == updateGlobals(proc[p].upd, Heap)
       IN  /\ snaps' = H.snaps
           /\ loggers' = H.loggers
           /\ cur' = H.cur
    /\ gmu' = 0
    /\ proc' = [proc EXCEPT
          ![p].pc = "idle",
          ![p].made = Len(snaps) + 1,
          ![p].priors = IF proc[p].upd.op = "dest"
                        THEN @ \cup {snaps[cur].dest} ELSE @]
    /\ UNCHANGED <<maps, once, nupd, exiters, stackWithExit, env, mu, pool, out, lines, exited>>

\* ExitViaPanic(): atomic.AddInt32(&_exiters, 1)
ExitViaPanic(p) ==
    /\ Running
    /\ proc[p].pc = "idle"
    /\ exiters < MaxExiters
    /\ exiters' = exiters + 1
    /\ UNCHANGED <<heapVars, gmu, nupd, stackWithExit, env, outVars>>

\* what runtime.Callers finds when no frame is asked for
NoCaller == [file |-> 0, line |-> 0, fn |-> 0]

\* ExitNotExpected(unexpected): atomic.StoreInt32(&_stackWithExit, 1), or 0
\* for false, which then returns
ExitNotExpected(p, unexpected) ==
    /\ Running
    /\ proc[p].pc = "idle"
    /\ unexpected => Emitted < MaxLines
    /\ stackWithExit' = IF unexpected THEN 1 ELSE 0
    /\ proc' = [proc EXCEPT ![p].pc = IF unexpected THEN "unexpected"
                                      ELSE "idle"]
    /\ UNCHANGED <<heapVars, gmu, nupd, exiters, env, mu, pool, out, lines,
                   exited>>

\* ExitNotExpected(true): if 0 == atomic.LoadInt32(&_exiters), a warning is
\* logged next
ExitNotExpectedLoad(p) ==
    /\ Running
    /\ proc[p].pc = "unexpected"
    /\ proc' = [proc EXCEPT ![p].pc = IF exiters = 0 THEN "warn" ELSE "idle"]
    /\ UNCHANGED <<heapVars, cfgVars, mu, pool, out, lines, exited>>

\* Warn().MMap("ExitNotExpected(true) when ExitViaPanic() not enabled",
\* "cause may be", "defer lager.ExitViaPanic() // no 2nd '()'")
ExitWarning == EmitCall("MMap", Str(53), <<Str(12), Str(41)>>, NoCaller)

\* ExitNotExpected(true) logs its warning; the writer is its own and not
\* one its caller holds
ExitNotExpectedWarn(p) ==
    /\ Running /\ CanGet
    /\ proc[p].pc = "warn" /\ Emitted < MaxLines
    /\ LET H == getGlobals(Heap)
           Wr == forLevel(H, lWarn, <<>>)
       IN  /\ snaps' = H.snaps
           /\ cur' = H.cur
           /\ once' = "done"
           /\ IF ~Enabled(Wr.r)
              THEN /\ proc' = [proc EXCEPT ![p].n = @ + 1, ![p].pc = "idle"]
                   /\ loggers' = Wr.loggers
                   /\ maps' = Wr.maps
                   /\ UNCHANGED <<pool, lines>>
              ELSE LET B == beginLine(p, [proc[p] EXCEPT !.n = @ + 1],
                                      H.snaps, Wr.loggers, Wr.maps, Wr.r,
                                      ExitWarning)
                   IN  /\ loggers' = B.loggers
                       /\ maps' = B.maps
                       /\ pool' \in Get
                       /\ lines' = Settle([lines EXCEPT ![B.line.p] =
                                              Append(@, B.line)], B.s)
                       /\ proc' = [proc EXCEPT ![p] = B.s]
    /\ UNCHANGED <<cfgVars, mu, out, exited>>

\* writers derived so far, by With or by a selector given a context
Derived ==
    LET RECURSIVE sum(_)
        sum(S) == IF S = {} THEN 0
                  ELSE LET q == CHOOSE q \in S : TRUE
                       IN  proc[q].nd + sum(S \ {q})
    IN  sum(Emitters)

\* the pairs of the context given to With: AddPairs(ctx, "k", "v")
CtxPairs == [keys |-> <<"k">>, vals |-> <<Str(1)>>]

\* what runtime.Callers finds for WithCaller and the C methods: a file name
\* of 7 bytes, a line number of 2 digits, a function name of 4 bytes
ACaller == [file |-> 7, line |-> 2, fn |-> 4]

\* p replaces the writer it holds by one derived from it: With(ctx),
\* WithCaller(0) or WithStack(0, 1)
Derive(p, kind) ==
    /\ Running
    /\ proc[p].pc = "idle" /\ proc[p].held # -1 /\ Derived < MaxDerives
    /\ LET m1 == Append(maps, CtxPairs)
           R == CASE kind = "With" ->
                       With(loggers, m1, proc[p].held, <<Len(m1)>>)
                  [] kind = "WithCaller" ->
                       WithCaller(loggers, maps, proc[p].held, ACaller)
                  [] kind = "WithStack" ->
                       WithStack(loggers, maps, proc[p].held, AStack)
       IN  /\ loggers' = R.loggers
           /\ maps' = R.maps
           /\ proc' = [proc EXCEPT ![p].held = R.r, ![p].nd = @ + 1]
    /\ UNCHANGED <<snaps, cur, once, cfgVars, mu, pool, out, lines, exited>>

(***************************************************************************)
(* Output: goroutines logging at once through the default configuration    *)
(***************************************************************************)
\* an environment without LAGER_LEVELS, LAGER_KEYS, LAGER_SPAN_PREFIX
DefaultEnv == [levels |-> <<>>, keys |-> NoKeys, spanPrefix |-> "", gcp |-> ""]

\* bytes of a line in the default format around its single string argument:
\* [ "timestamp" , "FAIL" , "..." ] newline
Frame == 1 + 27 + 2 + 6 + 2 + 2 + 2

\* one logging statement: the level and the emitting call
Job(lev, c) == [lev |-> lev, c |-> c]

\* a line with the one string argument of n bytes
OneString(n) == EmitCall("List", Nil, <<Str(n)>>, NoCaller)

\* a line with two string arguments, of n bytes and of one byte
TwoStrings(n) == EmitCall("List", Nil, <<Str(n), Str(1)>>, NoCaller)

\* bytes of a line in the default format around the first of two strings:
\* [ "timestamp" , "FAIL" , [ "..." , "x" ] ] newline
Frame2 == Frame + 1 + 2 + 3 + 1

\* bytes of such a line in the buffer when scalar() starts on the second
\* string, apart from the first string
Before2 == Frame2 - 6

\* the lines goroutines log: one filling the scratch exactly; one of two
\* arguments that leaves Reserve bytes of the scratch free; one of two
\* arguments, the second starting within Reserve bytes of the end of the
\* scratch, the whole line fitting; one a byte too long; one whose string is
\* larger than the scratch
OutJobs ==
    {Job(lFail, OneString(ScratchCap - Frame)),
     Job(lFail, TwoStrings(ScratchCap - Reserve - Frame2)),
     Job(lFail, TwoStrings(ScratchCap - Reserve - Before2 + 1)),
     Job(lFail, OneString(ScratchCap - Frame + 1)),
     Job(lFail, OneString(ScratchCap + 1))}

\* lines that end the program, next to one that does not
EndJobs ==
    {Job(lFail, OneString(5)),
     Job(lExit, OneString(ScratchCap - Frame + 1)),
     Job(lExit, OneString(5)),
     Job(lPanic, OneString(ScratchCap + 1))}

\* a line that holds the lock when it reaches the deferred value f
LockedCall(f) ==
    EmitCall("List", Nil, <<Str(ScratchCap + 1), Fn(f)>>, NoCaller)

\* lines with deferred values, reached with and without the lock held, next
\* to a line without one
FnJobs ==
    {Job(lFail, EmitCall("List", Nil, <<Fn("quick")>>, NoCaller)),
     Job(lFail, LockedCall("quick")),
     Job(lFail, LockedCall("never")),
     Job(lFail, LockedCall("emits")),
     Job(lFail, OneString(ScratchCap + 1))}

\* the state of every specification before any call into the package
InitProcs ==
    [p \in Procs |-> IF p \in Emitters THEN Idle ELSE [Idle EXCEPT !.pc = "off"]]

InitRest ==
    /\ snaps = <<>> /\ loggers = <<>> /\ maps = <<>>
    /\ cur = 0 /\ once = "no"
    /\ gmu = 0 /\ nupd = 0 /\ exiters = 0 /\ stackWithExit = 0
    /\ mu = [w |-> 0, r |-> {}]
    /\ pool = 0
    /\ out = <<>>
    /\ lines = [p \in Procs |-> <<>>]
    /\ exited = -1

InitCommon == InitRest /\ proc = InitProcs

InitOut == InitCommon /\ env = DefaultEnv

\* the steps of a line under way, of its deferred values, and the abort
LineStep(p) ==
    \/ AcquireX(p) \/ GrantX(p) \/ Flush(p) \/ Direct(p)
    \/ AcquireR(p) \/ Final(p) \/ Release(p) \/ PutBuf(p)

\* the steps of a line around a deferred value
CallStep(p) ==
    \/ CallFn(p) \/ SelectValue(p) \/ SelectTimeout(p) \/ SyncReturn(p)

NextOut ==
    \/ \E p \in Emitters, j \in OutJobs : Log(p, j.lev, <<>>, j.c)
    \/ \E p \in Procs : LineStep(p)

SpecOut == InitOut /\ [][NextOut]_vars

NextEnd ==
    \/ \E p \in Emitters, j \in EndJobs : Log(p, j.lev, <<>>, j.c)
    \/ \E p \in Emitters : ExitViaPanic(p)
    \/ \E p \in Emitters, unexpected \in BOOLEAN :
           ExitNotExpected(p, unexpected)
    \/ \E p \in Emitters : ExitNotExpectedLoad(p) \/ ExitNotExpectedWarn(p)
    \/ \E p \in Procs : LineStep(p) \/ LoadStackWithExit(p) \/ AbortStep(p)

SpecEnd == InitOut /\ [][NextEnd]_vars

\* a deferred value's own steps
FnStep(h) == FnEmit(h) \/ FnReturn(h)

NextFn ==
    \/ \E p \in Callers, j \in FnJobs : Log(p, j.lev, <<>>, j.c)
    \/ \E p \in Procs : LineStep(p) \/ CallStep(p)
    \/ \E h \in Helpers : FnStep(h)

SpecFn == InitOut /\ [][NextFn]_vars

\* a step of a line under way or of a deferred value
Progress == \E p \in Procs : LineStep(p) \/ CallStep(p) \/ FnStep(p)

\* while some goroutine can take such a step the scheduler runs one, and
\* the timer of a select fires
FairFn == SpecFn /\ WF_vars(Progress)

(***************************************************************************)
(* Disabled writers: every emitting method on the writer of a disabled     *)
(* level and on the writers derived from it, next to an enabled one        *)
(***************************************************************************)
\* one call of each emitting method, a deferred value among its arguments
AllCalls ==
    {EmitCall("List", Nil, <<Str(3), Fn("quick")>>, NoCaller),
     EmitCall("CList", Nil, <<Str(3), Fn("quick")>>, ACaller),
     EmitCall("MList", Str(3), <<Fn("quick")>>, NoCaller),
     EmitCall("CMList", Str(3), <<Fn("quick")>>, ACaller),
     EmitCall("Map", Nil, <<Str(1), Fn("quick")>>, NoCaller),
     EmitCall("CMap", Nil, <<Str(1), Fn("quick")>>, ACaller),
     EmitCall("MMap", Str(3), <<Str(1), Fn("quick")>>, NoCaller),
     EmitCall("CMMap", Str(3), <<Str(1), Fn("quick")>>, ACaller),
     EmitCall("Println", Nil, <<Str(3), Fn("quick")>>, NoCaller)}

\* a level the default configuration disables, and one it enables
NoopLevels == {lInfo, lFail}

\* the steps of a line that fits the scratch
SmallStep(p) == AcquireR(p) \/ Final(p) \/ Release(p) \/ PutBuf(p)

NextNoop ==
    \/ \E p \in Callers, lev \in NoopLevels : Obtain(p, lev, <<>>)
    \/ \E p \in Callers, kind \in {"With", "WithCaller", "WithStack"} :
           Derive(p, kind)
    \/ \E p \in Callers, c \in AllCalls : Emit(p, c)
    \/ \E p \in Procs : SmallStep(p) \/ CallFn(p) \/ SyncReturn(p)
    \/ \E h \in Helpers : FnReturn(h)

SpecNoop == InitOut /\ [][NextNoop]_vars

(***************************************************************************)
(* The registry under configuration updates                                *)
(***************************************************************************)
\* Keys("t", "l", "msg", "a", "ctx", "mod")
SomeKeys == keyStrs("t", "l", "msg", "a", "ctx", "mod")

\* environments firstInit may find: nothing set, or LAGER_LEVELS=I- with
\* LAGER_KEYS and LAGER_SPAN_PREFIX set
RegEnvs ==
    {DefaultEnv,
     [levels |-> <<"I", "-">>, keys |-> SomeKeys, spanPrefix |-> "svc",
      gcp |-> ""]}

\* the configuration calls made, one or more of each kind
RegUpdaters ==
    {InitU(<<>>), InitU(<<"G", "P", "E">>), InitU(<<"-">>),
     KeysU(SomeKeys), KeysU(<<"", "", "", "", "", "">>),
     SetOutputU("buf"), SetOutputU(""),
     SetPathPartsU(1), SetLevelNotationU("gcp"), SetSpanPrefixU("x")}

\* the steps of updateGlobals after the call
UpdStep(p) == UpdLock(p) \/ UpdApply(p)

InitReg == InitCommon /\ env \in RegEnvs

NextReg ==
    \/ \E p \in Callers, u \in RegUpdaters : ConfigCall(p, u)
    \/ \E p \in Callers, d \in {"", "buf"} : Restore(p, d)
    \/ \E p \in Callers : UpdStep(p)

SpecReg == InitReg /\ [][NextReg]_vars

(***************************************************************************)
(* Writers held across configuration updates                               *)
(***************************************************************************)
\* the updates that change what a line looks like or where it goes
CfgUpdaters ==
    {InitU(<<"I">>), KeysU(SomeKeys), SetOutputU("buf"), SetOutputU("stderr"),
     SetLevelNotationU("gcp")}

CfgLevels == {lPanic, lExit, lFail, lInfo}

\* the line goroutines log with the writer they hold
CfgCall == OneString(5)

NextCfg ==
    \/ \E p \in Callers, lev \in CfgLevels : Obtain(p, lev, <<>>)
    \/ \E p \in Callers : Emit(p, CfgCall)
    \/ \E p \in Callers, u \in CfgUpdaters : ConfigCall(p, u)
    \/ \E p \in Callers, d \in {"", "buf", "stderr"} : Restore(p, d)
    \/ \E p \in Callers : UpdStep(p)
    \/ \E p \in Procs : SmallStep(p) \/ LoadStackWithExit(p) \/ AbortStep(p)

SpecCfg == InitOut /\ [][NextCfg]_vars

(***************************************************************************)
(* Init(levels) as a function of its argument and of the levels enabled    *)
(* before                                                                  *)
(***************************************************************************)
\* the characters of the strings given to Init: the nine letters, the
\* letter of a level that is not optional, a lower-case letter, a dash
InitChars == {"F", "W", "N", "A", "I", "T", "D", "O", "G", "P", "f", "-"}

\* the strings given to Init
InitStrings == UNION {[1 .. n -> InitChars] : n \in 0 .. MaxLen}

\* LAGER_LEVELS before the call
InitEnvs ==
    {DefaultEnv,
     [levels |-> <<"I", "G">>, keys |-> NoKeys, spanPrefix |-> "", gcp |-> ""]}

\* the first goroutine is about to call Init(s)
InitInit ==
    /\ InitRest
    /\ env \in InitEnvs
    /\ \E str \in InitStrings :
           proc = [InitProcs EXCEPT ![1].upd = InitU(str)]

NextInit ==
    \/ \E p \in Callers :
           /\ nupd = 0
           /\ proc[p].upd.op = "setLevels"
           /\ ConfigCall(p, proc[p].upd)
    \/ \E p \in Callers : UpdStep(p)

SpecInit == InitInit /\ [][NextInit]_vars

(***************************************************************************)
(* First use under a malformed LAGER_KEYS.  firstInit runs inside          *)
(* _firstInit.Do; its Exit() calls forLevel, getGlobals and so             *)
(* _firstInit.Do again, on the sync.Once whose mutex the first Do holds.   *)
(***************************************************************************)
\* environments: LAGER_KEYS of two labels, of seven, of six with a blank
\* lev, of six with a blank mod; and one that is well formed
KeysEnvs ==
    {[levels |-> <<>>, keys |-> k, spanPrefix |-> "", gcp |-> ""] :
        k \in {<<"time", "lev">>,
               <<"t", "l", "m", "a", "c", "mod", "x">>,
               <<"time", "", "msg", "data", "", "mod">>,
               <<"time", "sev", "msg", "data", "", "">>,
               <<"time", "sev", "msg", "data", "", "mod">>}}
    \cup {[levels |-> <<>>, keys |-> NoKeys, spanPrefix |-> "", gcp |-> "1"]}

\* the status the Go runtime exits with on "all goroutines are asleep"
FatalStatus == ExitStatus + 1

\* a first use enters firstInit, which finds LAGER_GCP set and is about to
\* call SetLevelNotation(GcpLevelName), or finds LAGER_KEYS malformed and is
\* about to call Exit().MMap(...) or Exit().WithCaller(1).MMap(...)
EnterInit(p) ==
    /\ Running
    /\ proc[p].pc = "idle" /\ once = "no" /\ ~InitReturns(env)
    /\ once' = "running"
    /\ proc' = [proc EXCEPT ![p].pc = "initexit"]
    /\ UNCHANGED <<snaps, loggers, maps, cur, cfgVars, mu, pool, out, lines,
                   exited>>

\* firstInit: SetLevelNotation is updateGlobals and Exit() is
\* forLevel(lExit), whose getGlobals calls _firstInit.Do(firstInit), each
\* while the first Do has not returned: the goroutine waits for the mutex
\* of the Once, which it holds itself
InitExit(p) ==
    /\ Running
    /\ proc[p].pc = "initexit"
    /\ proc' = [proc EXCEPT ![p].pc = "oncewait"]
    /\ UNCHANGED <<heapVars, cfgVars, mu, pool, out, lines, exited>>

\* another goroutine's first use while firstInit has not returned
WaitOnce(p) ==
    /\ Running
    /\ proc[p].pc = "idle" /\ once = "running"
    /\ proc' = [proc EXCEPT ![p].pc = "oncewait"]
    /\ UNCHANGED <<heapVars, cfgVars, mu, pool, out, lines, exited>>

\* the Go runtime ends the program when no goroutine can run
Fatal ==
    /\ Running
    /\ \A p \in Emitters : proc[p].pc = "oncewait"
    /\ exited' = FatalStatus
    /\ UNCHANGED <<heapVars, cfgVars, proc, mu, pool, out, lines>>

InitKeys == InitCommon /\ env \in KeysEnvs

NextKeys ==
    \/ \E p \in Emitters, lev \in {lFail, lWarn, lInfo} :
           Log(p, lev, <<>>, CfgCall)
    \/ \E p \in Emitters : EnterInit(p) \/ InitExit(p) \/ WaitOnce(p)
    \/ Fatal
    \/ \E p \in Procs : SmallStep(p)

SpecKeys == InitKeys /\ [][NextKeys]_vars

(***************************************************************************)
(* Keys(when, lev, msg, args, ctx, mod)                                    *)
(***************************************************************************)
\* a Keys that takes every combination of labels
neverInvalid(k) == FALSE

\* Keys: "" == when || "" == lev || "" == args || "" == mod, reached when
\* the six labels are not all empty
KeysInvalid(k) ==
    /\ \E i \in 1 .. 6 : k[i] # ""
    /\ kWhen(k) = "" \/ kLev(k) = "" \/ kArgs(k) = "" \/ kMod(k) = ""

\* Keys: Exit().WithCaller(1).List("Only keys for msg and ctx can be blank")
KeysMessage == EmitCall("CList", Nil, <<Str(38)>>, ACaller)

\* the call a goroutine made last: its labels, and the snapshot the
\* goroutine had published before
KeysCall(k, made) == [op |-> "Keys", k |-> k, made |-> made]

\* p calls Keys(k[1], .., k[6])
Keys(p, k) ==
    /\ Running /\ CanGet
    /\ proc[p].pc = "idle"
    /\ IF KeysInvalid(k)
       THEN /\ Emitted < MaxLines
            /\ \E H \in {getGlobals(Heap)} :
               \E Wr \in {forLevel(H, lExit, <<>>)} :
               \E B \in {beginLine(p, [proc[p] EXCEPT
                                          !.n = @ + 1, !.held = Wr.r,
                                          !.sid = H.cur,
                                          !.call = KeysCall(k, proc[p].made)],
                                   H.snaps, Wr.loggers, Wr.maps, Wr.r,
                                   KeysMessage)} :
                   /\ snaps' = H.snaps
                   /\ cur' = H.cur
                   /\ once' = "done"
                   /\ loggers' = B.loggers
                   /\ maps' = B.maps
                   /\ pool' \in Get
                   /\ lines' = Settle([lines EXCEPT ![p] = Append(@, B.line)],
                                      B.s)
                   /\ proc' = [proc EXCEPT ![p] = B.s]
            /\ UNCHANGED <<cfgVars, mu, out, exited>>
       ELSE /\ nupd < MaxUpdates
            /\ nupd' = nupd + 1
            /\ \E H \in {getGlobals(Heap)} :
                   /\ snaps' = H.snaps
                   /\ loggers' = H.loggers
                   /\ cur' = H.cur
                   /\ once' = "done"
            /\ proc' = [proc EXCEPT ![p].pc = "updlock", ![p].upd = KeysU(k),
                                    ![p].call = KeysCall(k, proc[p].made)]
            /\ UNCHANGED <<maps, gmu, exiters, stackWithExit, env, mu, pool, out, lines,
                           exited>>

\* labels given to Keys: none, all six, msg and ctx blank, when blank, only
\* mod blank
KeysArgs ==
    {<<"", "", "", "", "", "">>,
     SomeKeys,
     <<"time", "sev", "", "data", "", "mod">>,
     <<"", "sev", "msg", "data", "ctx", "mod">>,
     <<"time", "sev", "msg", "data", "", "">>}

NextKeysCall ==
    \/ \E p \in Callers, k \in KeysArgs : Keys(p, k)
    \/ \E p \in Callers : ExitViaPanic(p)
    \/ \E p \in Callers : UpdStep(p)
    \/ \E p \in Procs : SmallStep(p) \/ LoadStackWithExit(p) \/ AbortStep(p)

SpecKeysCall == InitOut /\ [][NextKeysCall]_vars

(***************************************************************************)
(* Level(lev, cs...)                                                       *)
(***************************************************************************)
\* a switch that knows the upper-case letters only
upperOnly(b) ==
    CASE b = "P" -> lPanic [] b = "E" -> lExit [] b = "F" -> lFail
      [] b = "W" -> lWarn [] b = "N" -> lNote [] b = "A" -> lAcc
      [] b = "I" -> lInfo [] b = "T" -> lTrace [] b = "D" -> lDebug
      [] b = "O" -> lObj [] b = "G" -> lGuts
      [] OTHER -> -1

\* the switch of Level: the level a byte selects, -1 when it falls through
\* to the panic
LevelOfCode(b) ==
    CASE b \in {"P", "p"} -> lPanic
      [] b \in {"E", "e"} -> lExit
      [] b \in {"F", "f"} -> lFail
      [] b \in {"W", "w"} -> lWarn
      [] b \in {"N", "n"} -> lNote
      [] b \in {"A", "a"} -> lAcc
      [] b \in {"I", "i"} -> lInfo
      [] b \in {"T", "t"} -> lTrace
      [] b \in {"D", "d"} -> lDebug
      [] b \in {"O", "o"} -> lObj
      [] b \in {"G", "g"} -> lGuts
      [] OTHER -> -1

\* the call a goroutine made last: the byte, and whether a context with
\* pairs was passed
LevelCall(b, ctx) == [op |-> "Level", code |-> b, ctx |-> ctx]

\* p calls Level(b) or Level(b, ctx) with ctx := AddPairs(ctx0, "k", "v")
Level(p, b, ctx) ==
    /\ Running
    /\ proc[p].pc = "idle"
    /\ IF LevelOfCode(b) = -1
       THEN /\ proc' = [proc EXCEPT ![p].pc = "panicked", ![p].pv = "level",
                                    ![p].call = LevelCall(b, ctx)]
            /\ UNCHANGED <<heapVars, cfgVars, mu, pool, out, lines, exited>>
       ELSE /\ CanGet
            /\ ctx => Derived < MaxDerives
            /\ \E H \in {getGlobals(Heap)} :
               \E m1 \in {IF ctx THEN Append(H.maps, CtxPairs) ELSE H.maps} :
               \E Wr \in {forLevel([H EXCEPT !.maps = m1], LevelOfCode(b),
                                   IF ctx THEN <<Len(m1)>> ELSE <<>>)} :
                   /\ snaps' = H.snaps
                   /\ cur' = H.cur
                   /\ once' = "done"
                   /\ loggers' = Wr.loggers
                   /\ maps' = Wr.maps
                   /\ proc' = [proc EXCEPT ![p].held = Wr.r, ![p].sid = H.cur,
                                           ![p].nd = IF ctx THEN @ + 1 ELSE @,
                                           ![p].call = LevelCall(b, ctx)]
            /\ UNCHANGED <<cfgVars, mu, pool, out, lines, exited>>

\* bytes given to Level
LevelCodes == {"P", "f", "i", "g", "x"}

NextLevel ==
    \/ \E p \in Callers, b \in LevelCodes, ctx \in BOOLEAN : Level(p, b, ctx)
    \/ \E p \in Callers : ConfigCall(p, InitU(<<"I", "G">>))
    \/ \E p \in Callers : UpdStep(p)

SpecLevel == InitOut /\ [][NextLevel]_vars

(***************************************************************************)
(* RecoverPanicToExit(handlers...)                                         *)
(***************************************************************************)
\* a func(*int) given to RecoverPanicToExit: "zero" stores 0, "neg" stores
\* -1, "add" adds 2 to the status
ApplyHandler(h, x) ==
    CASE h = "zero" -> 0
      [] h = "neg" -> -1
      [] h = "add" -> x + 2

RECURSIVE runReversed(_, _)
\* handlers called from the last to the first
runReversed(hs, x) ==
    IF hs = <<>> THEN x
    ELSE ApplyHandler(Head(hs), runReversed(Tail(hs), x))

RECURSIVE runHandlers(_, _)
\* for _, h := range handlers { h(&exit) }
runHandlers(hs, x) ==
    IF hs = <<>> THEN x
    ELSE runHandlers(Tail(hs), ApplyHandler(Head(hs), x))

\* what a goroutine keeps of a RecoverPanicToExit call: the handlers and
\* the value recover() gave ("" for nil)
RecoverCall(hs, pv) == [op |-> "Recover", hs |-> hs, pv |-> pv]

\* RecoverPanicToExit run by the return (pc "idle") or by the panic (pc
\* "panicked") of the function that deferred it
RecoverPanicToExit(p, hs) ==
    /\ Running
    /\ proc[p].pc \in {"idle", "panicked"}
    /\ -MaxExiters < exiters
    /\ exiters' = exiters - 1
    /\ LET pv == IF proc[p].pc = "panicked" THEN proc[p].pv ELSE ""
           exit == runHandlers(hs, 1)
       IN  IF pv = "exit"
           THEN IF 0 <= exit
                THEN /\ exited' = exit
                     /\ proc' = [proc EXCEPT ![p].pc = "exited",
                                             ![p].call = RecoverCall(hs, pv)]
                ELSE /\ exited' = exited
                     /\ proc' = [proc EXCEPT ![p].pc = "idle", ![p].pv = "",
                                             ![p].call = RecoverCall(hs, pv)]
           ELSE /\ exited' = exited
                /\ proc' = [proc EXCEPT ![p].call = RecoverCall(hs, pv)]
    /\ UNCHANGED <<heapVars, gmu, nupd, stackWithExit, env, mu, pool, out, lines>>

\* handlers given to RecoverPanicToExit
HandlerSeqs ==
    {<<>>, <<"neg">>, <<"add">>, <<"neg", "zero">>, <<"zero", "neg">>}

\* an Exit line, a Panic line, a line that returns
RecoverJobs ==
    {Job(lExit, OneString(5)), Job(lPanic, OneString(5)),
     Job(lFail, OneString(5))}

NextRecover ==
    \/ \E p \in Callers, j \in RecoverJobs : Log(p, j.lev, <<>>, j.c)
    \/ \E p \in Callers : ExitViaPanic(p)
    \/ \E p \in Callers, hs \in HandlerSeqs : RecoverPanicToExit(p, hs)
    \/ \E p \in Procs : SmallStep(p) \/ LoadStackWithExit(p) \/ AbortStep(p)

SpecRecover == InitOut /\ [][NextRecover]_vars

(***************************************************************************)
(* The ordered key/value model: Pairs, AddPairs, Merge, InContext, With    *)
(***************************************************************************)
\* maps the heap may hold
MaxMaps == 3

\* AMaps a caller can name: nil and the maps made so far
MapIds == 0 .. Len(maps)

\* the result R of a call is kept by goroutine p, which notes the call c
Keep(p, R, c) ==
    /\ Len(R.maps) <= MaxMaps
    /\ maps' = R.maps
    /\ proc' = [proc EXCEPT ![p].call = c]
    /\ UNCHANGED <<snaps, loggers, cur, once, cfgVars, mu, pool, out, lines,
                   exited>>

\* p makes &KVPairs{}
NewKVPairs(p) ==
    /\ Running /\ proc[p].pc = "idle"
    /\ Keep(p, [maps |-> Append(maps, EmptyKV)],
            [op |-> "New", r |-> Len(maps) + 1])

\* p calls a.AddPairs(pairs...); Pairs(pairs...) is the call with a nil
AddPairsCall(p, a, toks) ==
    /\ Running /\ proc[p].pc = "idle"
    /\ \E R \in {AMapAddPairs(maps, a, toks)} :
           Keep(p, R, [op |-> "AddPairs", a |-> a, toks |-> toks, r |-> R.r])

\* p calls a.Merge(b)
MergeCall(p, a, b) ==
    /\ Running /\ proc[p].pc = "idle"
    /\ \E R \in {Merge(maps, a, b)} :
           Keep(p, R, [op |-> "Merge", a |-> a, b |-> b, r |-> R.r])

\* p calls AddPairs(ctx, pairs...)
CtxAddPairsCall(p, ctx, toks) ==
    /\ Running /\ proc[p].pc = "idle"
    /\ \E R \in {AddPairs(maps, ctx, toks)} :
           Keep(p, R, [op |-> "CtxAddPairs", ctx |-> ctx, toks |-> toks,
                       r |-> R.r, fresh |-> R.fresh])

\* p calls With(ctxs...) on the writer it holds and holds the result
WithCall(p, ctxs) ==
    /\ Running /\ proc[p].pc = "idle"
    /\ proc[p].held \notin {-1, noop}
    /\ \E R \in {With(loggers, maps, proc[p].held, ctxs)} :
           /\ R.r # proc[p].held => Derived < MaxDerives
           /\ Len(R.maps) <= MaxMaps
           /\ loggers' = R.loggers
           /\ maps' = R.maps
           /\ proc' = [proc EXCEPT
                 ![p].held = R.r,
                 ![p].nd = IF R.r # proc[p].held THEN @ + 1 ELSE @,
                 ![p].call = [op |-> "With", l |-> proc[p].held,
                              was |-> loggers[proc[p].held],
                              ctxs |-> ctxs, r |-> R.r]]
    /\ UNCHANGED <<snaps, cur, once, cfgVars, mu, pool, out, lines, exited>>

\* tokens given as pairs: none, one pair, a new key before a present one, a
\* key given twice followed by an odd trailing key
TokenSeqs ==
    {<<>>, <<Text("a"), Str(1)>>,
     <<Text("b"), Str(2), Text("a"), Str(2)>>,
     <<Text("a"), Str(1), Text("a"), Nil, Text("b")>>}

\* contexts given to With: none, one, two
CtxSeqs ==
    {<<>>} \cup {<<a>> : a \in MapIds} \cup {<<a, b>> : a, b \in MapIds}

NextMaps ==
    \/ \E p \in Callers : NewKVPairs(p)
    \/ \E p \in Callers, a \in MapIds, t \in TokenSeqs : AddPairsCall(p, a, t)
    \/ \E p \in Callers, a, b \in MapIds : MergeCall(p, a, b)
    \/ \E p \in Callers, a \in MapIds, t \in TokenSeqs :
           CtxAddPairsCall(p, a, t)
    \/ \E p \in Callers : Obtain(p, lFail, <<>>)
    \/ \E p \in Callers, cs \in CtxSeqs : WithCall(p, cs)

SpecMaps == InitOut /\ [][NextMaps]_vars

(***************************************************************************)
(* The text of a line.  A line is a sequence of tokens: a punctuation mark *)
(* (P), a quoted string of n bytes (Q), a literal such as null or a number *)
(* of n digits (Lit).  The encoder state E holds the tokens written (t),   *)
(* whether b.delim is the comma (d), and the deferred values called        *)
(* (calls).  RawMap elements are values as above, with three more kinds:   *)
(* "skip" and "inline" for the two sentinels, "rawmap" for a nested RawMap *)
(* and "amap" for an AMap (items are its keys and values in turn).         *)
(***************************************************************************)
P(c) == [t |-> "p", s |-> c, n |-> 0]
Q(n) == [t |-> "q", s |-> "", n |-> n]
Lit(s, n) == [t |-> "l", s |-> s, n |-> n]

\* const SkipThisPair = skipThisPair(""), const InlinePairs = inlinePairs("")
SkipThisPair == [k |-> "skip", n |-> 0, f |-> "", items |-> <<>>]
InlinePairs == [k |-> "inline", n |-> 0, f |-> "", items |-> <<>>]
RawMap(items) == [k |-> "rawmap", n |-> 0, f |-> "", items |-> items]
AMapOf(items) == [k |-> "amap", n |-> 0, f |-> "", items |-> items]

\* Unless(cond, label)
Unless(cond, label) == IF ~cond THEN label ELSE SkipThisPair

\* what a deferred value returns: a string of 4 bytes
FnText == Str(4)

\* a rawPairs that takes no element for the skip sentinel
skipsNothing(elt) == FALSE

\* rawPairs: _, ok := elt.(skipThisPair)
isSkip(elt) == elt.k = "skip"

\* a rawPairs that takes no element for the inline sentinel
inlinesNothing(elt) == FALSE

\* rawPairs: _, ok := elt.(inlinePairs)
isInline(elt) == elt.k = "inline"

\* b.write(b.delim, ...) of the tokens toks; b.delim becomes d after it
jWrite(E, toks, d) ==
    [E EXCEPT !.t = @ \o (IF E.d THEN <<P(",")>> ELSE <<>>) \o toks, !.d = d]

\* buffer.quote, open, colon, close on the text
jQuote(E, n) == jWrite(E, <<Q(n)>>, TRUE)
jOpen(E, c) == jWrite(E, <<P(c)>>, FALSE)
jColon(E) == [E EXCEPT !.t = Append(@, P(":")), !.d = FALSE]
jClose(E, c) == [E EXCEPT !.t = Append(@, P(c)), !.d = TRUE]

RECURSIVE jScalar(_, _)
RECURSIVE jInlineList(_, _)
RECURSIVE jPairs(_, _)
RECURSIVE jRawLoop(_, _, _, _, _)

\* buffer.pair(k, v) for a key of n bytes
jPair(E, n, v) == jScalar(jColon(jQuote(E, n)), v)

\* buffer.rawPairs(m)
jRawPairs(E, m) == jRawLoop(E, m, 0, FALSE, FALSE)

\* buffer.scalar(s) on the text
jScalar(E, s) ==
    LET v == IF s.k = "fn" THEN FnText ELSE s
        E1 == [E EXCEPT !.calls = IF s.k = "fn" THEN Append(@, s.f) ELSE @]
        E2 == jWrite(E1, <<>>, FALSE)
        E3 == CASE v.k = "nil" -> jWrite(E2, <<Lit("null", 0)>>, FALSE)
                [] v.k = "str" -> jQuote(E2, v.n)
                [] v.k = "int" -> jWrite(E2, <<Lit("int", v.n)>>, FALSE)
                [] v.k = "list" ->
                     jClose(jInlineList(jOpen(E2, "["), v.items), "]")
                [] v.k = "rawmap" ->
                     jClose(jRawPairs(jOpen(E2, "{"), v.items), "}")
                [] v.k = "amap" ->
                     jClose(jPairs(jOpen(E2, "{"), v.items), "}")
                [] OTHER -> jWrite(E2, <<Q(0)>>, FALSE)
    IN  [E3 EXCEPT !.d = TRUE]

\* buffer.inlineList(args)
jInlineList(E, args) ==
    IF args = <<>> THEN E
    ELSE jInlineList(jScalar(E, Head(args)), Tail(args))

\* buffer.pairs(m) for the keys and values kv of m in turn
jPairs(E, kv) ==
    IF kv = <<>> THEN E
    ELSE jPairs(jPair(E, kv[1].n, kv[2]), Tail(Tail(kv)))

\* the loop of buffer.rawPairs(m) from index i (counted from 0) on, and
\* what follows it
jRawLoop(E, m, i, skipping, inlining) ==
    IF i >= Len(m)
    THEN IF Len(m) % 2 = 1 /\ ~skipping THEN jScalar(E, Nil) ELSE E
    ELSE LET elt == m[i + 1]
         IN  IF i % 2 = 0
             THEN IF isSkip(elt) THEN jRawLoop(E, m, i + 1, TRUE, inlining)
                  ELSE IF isInline(elt)
                  THEN jRawLoop(E, m, i + 1, skipping, TRUE)
                  ELSE jRawLoop(jColon(jQuote(E, Len(StringOf(elt)))), m, i + 1,
                                skipping, inlining)
             ELSE IF skipping THEN jRawLoop(E, m, i + 1, FALSE, inlining)
             ELSE IF inlining
             THEN jRawLoop(CASE elt.k = "rawmap" -> jRawPairs(E, elt.items)
                             [] elt.k = "amap" -> jPairs(E, elt.items)
                             [] OTHER -> jPair(E, 13, elt),
                           m, i + 1, skipping, FALSE)
             ELSE jRawLoop(jScalar(E, elt), m, i + 1, skipping, inlining)

\* the text buffer.timestamp writes: a quoted string of 25 bytes whose date
\* and time are separated by sep
Stamp(sep) == [t |-> "q", s |-> sep, n |-> 25]

\* buffer.timestamp on the text: the separator is " " when nil == b.g.keys
\* and "T" otherwise; b.delim = comma
jTimestamp(E, keys) ==
    [E EXCEPT !.t = Append(@, Stamp(IF keys = NoKeys THEN " " ELSE "T")),
              !.d = TRUE]

\* logger.start on the text, for a Fail line: the bracket, the timestamp
\* and the level, with their labels when keys are set
jStart(keys) ==
    LET E0 == jOpen([t |-> <<>>, d |-> FALSE, calls |-> <<>>],
                    IF keys = NoKeys THEN "[" ELSE "{")
        E1 == IF keys = NoKeys THEN E0
              ELSE jColon(jQuote(E0, Len(kWhen(keys))))
        E2 == jTimestamp(E1, keys)
        E3 == IF keys = NoKeys THEN E2
              ELSE jColon(jQuote(E2, Len(kLev(keys))))
    IN  jScalar(E3, Str(4))

\* an end that writes the context whenever the writer has a map
jEndAlways(E, keys, kv) ==
    LET E1 == IF kv.k = "amap"
              THEN IF keys = NoKeys THEN jScalar(E, kv)
                   ELSE IF kCtx(keys) = "" THEN jPairs(E, kv.items)
                   ELSE jPair(E, Len(kCtx(keys)), kv)
              ELSE E
    IN  [E1 EXCEPT
            !.t = @ \o <<P(IF keys = NoKeys THEN "]" ELSE "}"), P("\n")>>,
            !.d = TRUE]

\* logger.end on the text, for a writer with the context kv (Nil for a nil
\* AMap) and no module: the context pairs when there are any, then
\* close("]\n") or close("}\n")
jEnd(E, keys, kv) ==
    LET E1 == IF kv.k = "amap" /\ 0 < Len(kv.items)
              THEN IF keys = NoKeys THEN jScalar(E, kv)
                   ELSE IF kCtx(keys) = "" THEN jPairs(E, kv.items)
                   ELSE jPair(E, Len(kCtx(keys)), kv)
              ELSE E
    IN  [E1 EXCEPT
            !.t = @ \o <<P(IF keys = NoKeys THEN "]" ELSE "}"), P("\n")>>,
            !.d = TRUE]

\* logger.Map(pairs...) on the text
jMap(keys, kv, prs) ==
    jEnd(IF keys = NoKeys THEN jScalar(jStart(keys), RawMap(prs))
         ELSE jRawPairs(jStart(keys), prs), keys, kv)

\* logger.MMap(message, pairs...) on the text, outside GCP
jMMap(keys, kv, message, prs) ==
    jEnd(IF keys = NoKeys
         THEN LET E == jScalar(jStart(keys), message)
              IN  IF 0 < Len(prs) THEN jScalar(E, RawMap(prs)) ELSE E
         ELSE jRawPairs(jPair(jStart(keys),
                              IF kMsg(keys) = "" THEN 3 ELSE Len(kMsg(keys)),
                              message), prs), keys, kv)

\* elements of the pairs given to Map and MMap
MaxToks == 3

\* a string, the sentinels as Unless returns them or not, a deferred value,
\* a nested RawMap (with a skipped deferred value, an inlined list and an
\* odd trailing key), an AMap with a pair, an AMap without, a list that
\* holds an AMap without pairs
RawElems ==
    {Unless(FALSE, Str(1)), Unless(TRUE, Str(1)), InlinePairs,
     Fn("quick"),
     RawMap(<<SkipThisPair, Fn("quick"), InlinePairs, AList(<<Str(2)>>),
              Str(2)>>),
     AMapOf(<<Str(3), Nil>>), AMapOf(<<>>), AList(<<AMapOf(<<>>)>>)}

RawSeqs == UNION {[1 .. n -> RawElems] : n \in 0 .. MaxToks}

\* the key labels of the line: none (a JSON list), six (a JSON object), or
\* the five of GCP, which place the context pairs among the others
TextKeys ==
    {NoKeys, SomeKeys,
     keyStrs("time", "severity", "message", "data", "", "module")}

\* the context of the writer: nil, a map without pairs, a map with one
TextCtxs == {Nil, AMapOf(<<>>), AMapOf(<<Str(3), Str(1)>>)}

\* p makes its one call, Map(pairs...) or MMap(message, pairs...) on a Fail
\* writer with the context kv, and keeps the text of the line
MapText(p, m, keys, kv, prs) ==
    /\ Running /\ proc[p].pc = "idle" /\ proc[p].call = <<>>
    /\ \E E \in {IF m = "Map" THEN jMap(keys, kv, prs)
                 ELSE jMMap(keys, kv, Str(5), prs)} :
           proc' = [proc EXCEPT ![p].call =
                       [op |-> m, keys |-> keys, kv |-> kv, prs |-> prs,
                        text |-> E.t, calls |-> E.calls]]
    /\ UNCHANGED <<heapVars, cfgVars, mu, pool, out, lines, exited>>

\* the call is made by the first goroutine
NextText ==
    /\ proc[1].call = <<>>
    /\ \E m \in {"Map", "MMap"}, keys \in TextKeys, kv \in TextCtxs,
          prs \in RawSeqs : MapText(1, m, keys, kv, prs)

SpecText == InitOut /\ [][NextText]_vars

(***************************************************************************)
(* Escaping the bytes of a string.  A string is a sequence of bytes        *)
(* (0 .. 255) and so is the text appended to the buffer.                   *)
(***************************************************************************)
\* noEsc: the printable ASCII bytes other than the quote and the backslash
noEsc(c) == 32 <= c /\ c < 127 /\ c # 34 /\ c # 92

\* hexDigits[n] of "0123456789ABCDEF", as a byte
hexDigits(n) == IF n < 10 THEN 48 + n ELSE 55 + n

\* buffer.escape1Rune: a backslash and one letter, or \u and four digits
escape1Rune(buf, rn) ==
    IF rn = 34 THEN buf \o <<92, 34>>
    ELSE IF rn = 92 THEN buf \o <<92, 92>>
    ELSE IF rn = 8 THEN buf \o <<92, 98>>
    ELSE IF rn = 12 THEN buf \o <<92, 102>>
    ELSE IF rn = 10 THEN buf \o <<92, 110>>
    ELSE IF rn = 13 THEN buf \o <<92, 114>>
    ELSE IF rn = 9 THEN buf \o <<92, 116>>
    ELSE buf \o <<92, 117, hexDigits((rn \div 4096) % 16),
                  hexDigits((rn \div 256) % 16),
                  hexDigits((rn \div 16) % 16), hexDigits(rn % 16)>>

\* buffer.writeByteHex: two upper-case digits
writeByteHex(buf, c) == buf \o <<hexDigits(c \div 16), hexDigits(c % 16)>>

\* utf8.RuneError, U+FFFD
RuneError == 65533

\* the byte at index k exists and lies in lo .. hi
inRange(bs, k, lo, hi) == k <= Len(bs) /\ lo <= bs[k] /\ bs[k] <= hi

\* utf8.DecodeRune on bs from index at: the rune and its width; an
\* encoding that is not valid gives (RuneError, 1)
DecodeRune(bs, at) ==
    LET b0 == bs[at]
        bad == [r |-> RuneError, rl |-> 1]
        v(k) == bs[at + k] - 128
    IN  IF b0 < 128 THEN [r |-> b0, rl |-> 1]
        ELSE IF 194 <= b0 /\ b0 <= 223
        THEN IF inRange(bs, at + 1, 128, 191)
             THEN [r |-> (b0 - 192) * 64 + v(1), rl |-> 2]
             ELSE bad
        ELSE IF 224 <= b0 /\ b0 <= 239
        THEN IF /\ inRange(bs, at + 1, IF b0 = 224 THEN 160 ELSE 128,
                           IF b0 = 237 THEN 159 ELSE 191)
                /\ inRange(bs, at + 2, 128, 191)
             THEN [r |-> (b0 - 224) * 4096 + v(1) * 64 + v(2), rl |-> 3]
             ELSE bad
        ELSE IF 240 <= b0 /\ b0 <= 244
        THEN IF /\ inRange(bs, at + 1, IF b0 = 240 THEN 144 ELSE 128,
                           IF b0 = 244 THEN 143 ELSE 191)
                /\ inRange(bs, at + 2, 128, 191)
                /\ inRange(bs, at + 3, 128, 191)
             THEN [r |-> (b0 - 240) * 262144 + v(1) * 4096 + v(2) * 64 + v(3),
                   rl |-> 4]
             ELSE bad
        ELSE bad

\* utf8.DecodeRuneInString: the same decoding, of a string
DecodeRuneInString(bs, at) == DecodeRune(bs, at)

\* the test both escape functions make of a decoded rune
notUtf8(d) == (d.r = RuneError /\ d.rl = 1) \/ 1114112 <= d.r

\* utf16.EncodeRune: the two surrogates of a rune above U+FFFF
surr1(rn) == 55296 + ((rn - 65536) \div 1024)
surr2(rn) == 56320 + ((rn - 65536) % 1024)

\* a token for the first byte only
nonUtf8One(buf, bs, at) ==
    [buf |-> writeByteHex(buf \o <<194, 171, 120>>, bs[at]) \o <<194, 187>>,
     n |-> 1]

RECURSIVE nonUtf8CharsLoop(_, _, _, _)
\* the loop of nonUtf8Chars after i bytes of s = bs[at ..] were written
nonUtf8CharsLoop(buf, bs, at, i) ==
    LET b1 == writeByteHex(buf, bs[at + i])
    IN  IF at + i + 1 > Len(bs) THEN [buf |-> b1, n |-> i + 1]
        ELSE IF ~notUtf8(DecodeRuneInString(bs, at + i + 1))
        THEN [buf |-> b1, n |-> i + 1]
        ELSE nonUtf8CharsLoop(b1, bs, at, i + 1)

\* buffer.nonUtf8Chars on bs[at ..]: the buffer and the bytes consumed
nonUtf8Chars(buf, bs, at) ==
    LET R == nonUtf8CharsLoop(buf \o <<194, 171, 120>>, bs, at, 0)
    IN  [buf |-> R.buf \o <<194, 187>>, n |-> R.n]

RECURSIVE nonUtf8BytesLoop(_, _, _, _)
\* the loop of nonUtf8Bytes
nonUtf8BytesLoop(buf, bs, at, i) ==
    LET b1 == writeByteHex(buf, bs[at + i])
    IN  IF at + i + 1 > Len(bs) THEN [buf |-> b1, n |-> i + 1]
        ELSE IF ~notUtf8(DecodeRune(bs, at + i + 1))
        THEN [buf |-> b1, n |-> i + 1]
        ELSE nonUtf8BytesLoop(b1, bs, at, i + 1)

\* buffer.nonUtf8Bytes
nonUtf8Bytes(buf, bs, at) ==
    LET R == nonUtf8BytesLoop(buf \o <<194, 171, 120>>, bs, at, 0)
    IN  [buf |-> R.buf \o <<194, 187>>, n |-> R.n]

RECURSIVE escapeLoop(_, _, _, _)
\* the loop of escape at index i, with bs[beg .. i-1] not yet written
escapeLoop(buf, bs, i, beg) ==
    IF i > Len(bs) THEN buf \o SubSeq(bs, beg, Len(bs))
    ELSE IF noEsc(bs[i]) THEN escapeLoop(buf, bs, i + 1, beg)
    ELSE LET b1 == buf \o SubSeq(bs, beg, i - 1)
             d == DecodeRuneInString(bs, i)
         IN  IF bs[i] < 128
             THEN escapeLoop(escape1Rune(b1, bs[i]), bs, i + 1, i + 1)
             ELSE IF notUtf8(d)
             THEN LET R == nonUtf8Chars(b1, bs, i)
                  IN  escapeLoop(R.buf, bs, i + R.n, i + R.n)
             ELSE LET b2 == IF 65535 < d.r
                            THEN escape1Rune(escape1Rune(b1, surr1(d.r)),
                                             surr2(d.r))
                            ELSE IF d.r < 160 THEN escape1Rune(b1, d.r)
                            ELSE b1 \o SubSeq(bs, i, i + d.rl - 1)
                  IN  escapeLoop(b2, bs, i + d.rl, i + d.rl)

\* buffer.escape on an empty buffer
escape(bs) == escapeLoop(<<>>, bs, 1, 1)

RECURSIVE escapeBytesLoop(_, _, _, _)
\* the loop of escapeBytes
escapeBytesLoop(buf, bs, i, beg) ==
    IF i > Len(bs) THEN buf \o SubSeq(bs, beg, Len(bs))
    ELSE IF noEsc(bs[i]) THEN escapeBytesLoop(buf, bs, i + 1, beg)
    ELSE LET b1 == buf \o SubSeq(bs, beg, i - 1)
             d == DecodeRune(bs, i)
         IN  IF bs[i] < 128
             THEN escapeBytesLoop(escape1Rune(b1, bs[i]), bs, i + 1, i + 1)
             ELSE IF notUtf8(d)
             THEN LET R == nonUtf8Bytes(b1, bs, i)
                  IN  escapeBytesLoop(R.buf, bs, i + R.n, i + R.n)
             ELSE LET b2 == IF 65535 < d.r
                            THEN escape1Rune(escape1Rune(b1, surr1(d.r)),
                                             surr2(d.r))
                            ELSE IF d.r < 160 THEN escape1Rune(b1, d.r)
                            ELSE b1 \o SubSeq(bs, i, i + d.rl - 1)
                  IN  escapeBytesLoop(b2, bs, i + d.rl, i + d.rl)

\* buffer.escapeBytes on an empty buffer
escapeBytes(bs) == escapeBytesLoop(<<>>, bs, 1, 1)

\* the longest string escaped
MaxBytes == 4

\* the bytes the strings are made of: A, the quote, the newline, the leads
\* C2, E2, ED and F0, the continuations 92 and A9, and FF
EscBytes == {65, 34, 10, 194, 226, 237, 240, 146, 169, 255}

\* the strings escaped
EscStrings == UNION {[1 .. n -> EscBytes] : n \in 0 .. MaxBytes}

\* one goroutine escapes the string bs and the byte slice of the same bytes
EscapeCall(p, bs) ==
    /\ Running /\ proc[p].pc = "idle" /\ proc[p].call = <<>>
    /\ proc' = [proc EXCEPT ![p].call =
                    [op |-> "escape", s |-> bs, str |-> escape(bs),
                     byt |-> escapeBytes(bs)]]
    /\ UNCHANGED <<heapVars, cfgVars, mu, pool, out, lines, exited>>

NextEsc ==
    /\ proc[1].call = <<>>
    /\ \E bs \in EscStrings : EscapeCall(1, bs)

SpecEsc == InitOut /\ [][NextEsc]_vars

(***************************************************************************)
(* RunningInGcp().  Its updater runs inside updateGlobals, with            *)
(* _globalsMutex held, and calls SetLevelNotation, which calls             *)
(* updateGlobals again and waits for the mutex.                            *)
(***************************************************************************)
\* setRunningInGcp(enabled), the updater RunningInGcp passes
RunningInGcpU == Updater("gcp", TRUE)

\* the updater of setRunningInGcp, called by updateGlobals on its copy: it
\* sets g.inGcp and g.keys of the copy and calls SetLevelNotation, whose
\* updateGlobals passes _firstInit.Do and waits for _globalsMutex
setRunningInGcp(p) ==
    /\ Running
    /\ proc[p].pc = "upd"
    /\ proc[p].upd.op = "gcp"
    /\ proc' = [proc EXCEPT
          ![p].pc = "updlock",
          ![p].upd = SetLevelNotationU(IF proc[p].upd.arg THEN "gcp" ELSE "")]
    /\ UNCHANGED <<heapVars, cfgVars, mu, pool, out, lines, exited>>

\* the configuration calls made next to RunningInGcp
GcpUpdaters ==
    {RunningInGcpU, KeysU(SomeKeys), SetLevelNotationU("gcp"),
     SetLevelNotationU(""), InitU(<<"I">>)}

NextGcp ==
    \/ \E p \in Emitters, u \in GcpUpdaters : ConfigCall(p, u)
    \/ \E p \in Emitters : UpdLock(p)
    \/ \E p \in Emitters : setRunningInGcp(p)
    \/ \E p \in Emitters : UpdApply(p)

SpecGcp == InitReg /\ [][NextGcp]_vars

(***************************************************************************)
(* First accesses and updates from several goroutines.  Every access goes  *)
(* through _firstInit.Do(firstInit): getGlobals() before its Load,         *)
(* updateGlobals() before it takes _globalsMutex.                          *)
(***************************************************************************)
\* a Once that lets later callers through while f is still running
onceNoWait(o) == IF o = "no" THEN "run" ELSE "go"

\* what sync.Once.Do does for its caller: run f when no call has begun,
\* wait while the call that runs f has not returned, else return at once
onceDo(o) ==
    CASE o = "no" -> "run"
      [] o = "running" -> "wait"
      [] OTHER -> "go"

\* getGlobals() called for forLevel(lev)
ReadU(lev) == Updater("read", lev)

\* getGlobals() or updateGlobals(u) is called and reaches _firstInit.Do
FirstDo(p, u) ==
    /\ Running /\ InitReturns(env)
    /\ proc[p].pc = "idle"
    /\ u.op # "read" => nupd < MaxUpdates
    /\ nupd' = IF u.op = "read" THEN nupd ELSE nupd + 1
    /\ once' = IF onceDo(once) = "run" THEN "running" ELSE once
    /\ proc' = [proc EXCEPT
          ![p].upd = u,
          ![p].pc = CASE onceDo(once) = "run" -> "init"
                      [] onceDo(once) = "wait" -> "oncewait"
                      [] OTHER -> "access"]
    /\ UNCHANGED <<snaps, loggers, maps, cur, gmu, exiters, stackWithExit, env, mu, pool,
                   out, lines, exited>>

\* firstInit() runs, up to its _globals.Store(&g)
InitStore(p) ==
    /\ Running
    /\ proc[p].pc = "init"
    /\ LET H == firstInit(env, Heap)
       IN  /\ snaps' = H.snaps
           /\ loggers' = H.loggers
           /\ cur' = H.cur
    /\ proc' = [proc EXCEPT ![p].pc = "initret"]
    /\ UNCHANGED <<maps, once, cfgVars, mu, pool, out, lines, exited>>

\* Do returns to the goroutine that ran firstInit, marking the Once done
OnceDone(p) ==
    /\ Running
    /\ proc[p].pc = "initret"
    /\ once' = "done"
    /\ proc' = [proc EXCEPT ![p].pc = "access"]
    /\ UNCHANGED <<snaps, loggers, maps, cur, cfgVars, mu, pool, out, lines,
                   exited>>

\* Do returns to a goroutine that waited for firstInit
OnceWake(p) ==
    /\ Running
    /\ proc[p].pc = "oncewait"
    /\ once = "done"
    /\ proc' = [proc EXCEPT ![p].pc = "access"]
    /\ UNCHANGED <<heapVars, cfgVars, mu, pool, out, lines, exited>>

\* getGlobals(): p := _globals.Load(); return p.(*globals), which panics
\* on the nil of a value never stored; forLevel returns g.lagers[lev]
Load(p) ==
    /\ Running
    /\ proc[p].pc = "access"
    /\ proc[p].upd.op = "read"
    /\ proc' = [proc EXCEPT
          ![p].pc = IF cur = 0 THEN "panicked" ELSE "idle",
          ![p].sid = cur,
          ![p].held = IF cur = 0 THEN -1
                      ELSE snaps[cur].lagers[proc[p].upd.arg + 1]]
    /\ UNCHANGED <<heapVars, cfgVars, mu, pool, out, lines, exited>>

\* updateGlobals() goes on to AutoLock(&_globalsMutex)
ToLock(p) ==
    /\ Running
    /\ proc[p].pc = "access"
    /\ proc[p].upd.op # "read"
    /\ proc' = [proc EXCEPT ![p].pc = "updlock"]
    /\ UNCHANGED <<heapVars, cfgVars, mu, pool, out, lines, exited>>

\* the accesses made: a read, and Init, Keys and SetOutput
UpdJobs == {ReadU(lInfo), InitU(<<"I">>), KeysU(SomeKeys), SetOutputU("buf")}

NextUpd ==
    \/ \E p \in Emitters, u \in UpdJobs : FirstDo(p, u)
    \/ \E p \in Emitters : InitStore(p)
    \/ \E p \in Emitters : OnceDone(p)
    \/ \E p \in Emitters : OnceWake(p)
    \/ \E p \in Emitters : Load(p)
    \/ \E p \in Emitters : ToLock(p)
    \/ \E p \in Emitters : UpdLock(p)
    \/ \E p \in Emitters : UpdApply(p)

SpecUpd == InitReg /\ [][NextUpd]_vars

(***************************************************************************)
(* One line composed while the configuration is updated.  logger.start,    *)
(* the emitting method and logger.end each read the snapshot through the   *)
(* writer (l.g, and b.g = l.g); other goroutines run between them.         *)
(***************************************************************************)
\* a line that reads the published snapshot at each step
publishedSnapshot(lg, c) == c

\* the snapshot a step of the line reads: l.g of its writer, whatever
\* _globals holds by then
lineSnapshot(lg, c) == lg

\* the contexts and pairs of the lines
ModeCtxs == {Nil, AMapOf(<<Str(3), Str(1)>>)}
ModePairs == {<<>>, <<Str(1), Str(2)>>}

\* l.With(ctx).Map(prs...) on the writer held, once for each goroutine:
\* logger.start picks the destination, opens the line and writes the
\* timestamp and the level
LineStart(p, kv, prs) ==
    /\ Running
    /\ proc[p].pc = "idle" /\ proc[p].held > 0
    /\ proc[p].call = <<>>
    /\ LET l == loggers[proc[p].held]
           g == snaps[lineSnapshot(l.g, cur)]
       IN  proc' = [proc EXCEPT
              ![p].pc = "compose",
              ![p].call = [op |-> "line", stage |-> 1, g |-> l.g,
                           lev |-> l.lev, at |-> cur, endcur |-> 0,
                           kv |-> kv, prs |-> prs,
                           w |-> startDest(l, g),
                           text |-> jStart(g.keys)]]
    /\ UNCHANGED <<heapVars, cfgVars, mu, pool, out, lines, exited>>

\* logger.Map: the pairs, as a map in a list or as members of the object
LineBody(p) ==
    /\ Running
    /\ proc[p].pc = "compose" /\ proc[p].call.stage = 1
    /\ LET c == proc[p].call
           g == snaps[lineSnapshot(c.g, cur)]
       IN  proc' = [proc EXCEPT
              ![p].call.stage = 2,
              ![p].call.text =
                  IF g.keys = NoKeys THEN jScalar(c.text, RawMap(c.prs))
                  ELSE jRawPairs(c.text, c.prs)]
    /\ UNCHANGED <<heapVars, cfgVars, mu, pool, out, lines, exited>>

\* logger.end: the context pairs, the closing bracket and the newline; the
\* line goes to the b.w set by start
LineEnd(p) ==
    /\ Running
    /\ proc[p].pc = "compose" /\ proc[p].call.stage = 2
    /\ LET c == proc[p].call
           g == snaps[lineSnapshot(c.g, cur)]
       IN  proc' = [proc EXCEPT
              ![p].pc = "idle",
              ![p].call.stage = 3,
              ![p].call.endcur = cur,
              ![p].call.text = jEnd(c.text, g.keys, c.kv)]
    /\ UNCHANGED <<heapVars, cfgVars, mu, pool, out, lines, exited>>

\* the updates made while lines are composed: Keys to object format and
\* back to a list, SetOutput
ModeUpdaters ==
    {KeysU(SomeKeys), KeysU(<<"", "", "", "", "", "">>), SetOutputU("buf")}

\* the goroutines that update the configuration while the others log
Updaters == Emitters \ Callers

NextMode ==
    \/ \E p \in Callers : Obtain(p, lFail, <<>>)
    \/ \E p \in Callers, kv \in ModeCtxs, prs \in ModePairs :
           LineStart(p, kv, prs)
    \/ \E p \in Callers : LineBody(p)
    \/ \E p \in Callers : LineEnd(p)
    \/ \E p \in Updaters, u \in ModeUpdaters : ConfigCall(p, u)
    \/ \E p \in Updaters : UpdLock(p)
    \/ \E p \in Updaters : UpdApply(p)

SpecMode == InitOut /\ [][NextMode]_vars

(***************************************************************************)
(* Properties                                                              *)
(***************************************************************************)
\* the Write calls of line id, in order
WritesOf(id) == SelectSeq(out, LAMBDA r : r.line = id)

\* every line started
LineIds == {<<p, k>> : p \in Procs, k \in 1 .. (MaxLines + 1)}
Started == {id \in LineIds : id[2] <= Len(lines[id[1]])}

\* C1: on any one destination the Write calls of a line are consecutive (no
\* Write of another line to that destination falls between two of them), and
\* they carry the bytes of the line in order from its first byte, however
\* the goroutines are scheduled.
C1_NoInterleaving ==
    /\ \A i, j \in 1 .. Len(out) :
           (i < j /\ out[i].line = out[j].line) =>
               \A k \in i .. j :
                   out[k].w = out[i].w => out[k].line = out[i].line
    /\ \A id \in Started :
           LET ws == WritesOf(id)
           IN  \A n \in 1 .. Len(ws) :
                   ws[n].from = (IF n = 1 THEN 0 ELSE ws[n - 1].to)

\* a line holds the lock between two of its Write calls while another
\* goroutine waits to write its own line to the same destination
C1_Witness ==
    \E p, q \in Procs :
        /\ p # q
        /\ proc[p].locked /\ proc[p].pc \in {"final", "flush", "direct"}
        /\ \E i \in 1 .. Len(out) : out[i].line = proc[p].line
        /\ proc[q].pc \in {"lock", "rlock"}
        /\ proc[q].w = proc[p].w

\* the complete lines of at most n bytes
Within(n) == {id \in Started : LineOf(id).done /\ LineOf(id).total <= n}

\* line id never took the exclusive lock, took the shared lock once, and
\* reached the destination whole in one Write
SharedOnly(id) ==
    /\ LineOf(id).x = 0
    /\ LineOf(id).r = 1
    /\ WritesOf(id) = <<[w |-> LineOf(id).w, line |-> id, from |-> 0,
                         to |-> LineOf(id).total]>>

\* C2 as stated: a line whose complete encoded form is no longer than the
\* scratch never takes the exclusive lock, takes the shared lock once and is
\* written in a single Write.
C2_FitsScratch == \A id \in Within(ScratchCap) : SharedOnly(id)

\* C2: a line whose complete encoded form leaves Reserve bytes of the
\* scratch free never takes the exclusive lock: it takes the shared lock
\* once, after its last byte is composed, and is written in a single Write.
C2_FitsWithReserve == \A id \in Within(ScratchCap - Reserve) : SharedOnly(id)

\* a complete line of several arguments that leaves exactly Reserve bytes free
C2_Witness ==
    \E id \in Started :
        /\ LineOf(id).done
        /\ LineOf(id).total = ScratchCap - Reserve
        /\ SharedOnly(id)

\* every deferred value encoded so far: the line, its rank in the line, and
\* what the history kept of it
EncodedCalls ==
    {c \in [id : Started, i : 1 .. (MaxCalls + 1)] :
        c.i <= Len(LineOf(c.id).enc)}

EncOf(c) == LineOf(c.id).enc[c.i]

\* what is encoded for a deferred value: under the lock the call is raced
\* against the timer and either the value it returned or the placeholder is
\* encoded; without the lock the call is synchronous and its value encoded;
\* a value returned after the placeholder was taken is encoded nowhere
C3_Encoding ==
    /\ \A c \in EncodedCalls :
           LET e == EncOf(c)
           IN  /\ e.locked => e.mode = "wait"
               /\ ~e.locked => (e.mode = "sync" /\ e.got = "value")
               /\ e.got \in {"value", "placeholder"}
               /\ e.got = "value" => e.returned
    /\ \A c, d \in EncodedCalls : c # d => EncOf(c).h # EncOf(d).h
    /\ \A p \in Procs : proc[p].pc = "wait" => proc[p].locked

\* a line waiting under the lock for a deferred value goes on to complete
\* and release the lock
C3_Completes ==
    \A p \in Emitters :
        (proc[p].pc = "wait") ~>
            (/\ proc[p].pc = "idle" /\ mu.w # p
             /\ proc[p].line # NoLine /\ LineOf(proc[p].line).done)

\* C3: a deferred value reached while its line holds the exclusive lock is
\* awaited no longer than the timer: its value is encoded if it is taken
\* before the timeout, the placeholder otherwise, a late value is written
\* to no line, and the line completes and releases the lock even if the
\* value never comes; without the lock the call is synchronous and its
\* value is what is encoded.
C3_TimeBoxedCall == []C3_Encoding /\ C3_Completes

\* a line is complete and has released the lock with the placeholder in the
\* place of a deferred value that never returned
C3_Witness ==
    \E c \in EncodedCalls :
        /\ EncOf(c).got = "placeholder"
        /\ proc[EncOf(c).h].pc = "hang"
        /\ LineOf(c.id).done
        /\ mu.w = 0

\* the deferred values that log and were called with the lock held
InnerEmitters == {h \in Helpers : proc[h].kind = "emits" /\ proc[h].under}

\* positions in out of the Write calls of line id
WritesAt(id) == {i \in 1 .. Len(out) : out[i].line = id}

\* line id is out: its method has returned, or it has only bufPool.Put left
\* to do, every byte it composed written and outMu released
C4_Out(id) ==
    \/ LineOf(id).done
    \/ LET s == proc[id[1]]
           ws == WritesOf(id)
       IN  /\ s.line = id /\ s.pc = "put"
           /\ s.len = 0 /\ Len(ws) > 0 /\ ws[Len(ws)].to = s.pos
           /\ ~s.locked /\ mu.w # id[1] /\ id[1] \notin mu.r

\* the line such a deferred value logs is written whole, after the last
\* byte of the outer line and after the outer line released the lock, and
\* the outer line has the placeholder in its place
C4_InnerAfterOuter ==
    \A h \in InnerEmitters :
        LET inner == <<h, 1>>
            outer == proc[h].pline
        IN  /\ WritesAt(inner) # {} =>
                   /\ C4_Out(outer)
                   /\ \A i \in WritesAt(inner), j \in WritesAt(outer) : j < i
                   /\ WritesOf(inner) =
                          <<[w |-> LineOf(inner).w, line |-> inner, from |-> 0,
                             to |-> proc[h].pos]>>
            /\ \A c \in EncodedCalls :
                   (c.id = outer /\ EncOf(c).h = h) =>
                       EncOf(c).got = "placeholder"

\* both lines complete
C4_BothComplete ==
    \A h \in Helpers :
        (proc[h].pc = "fnemit" /\ proc[h].under) ~>
            (/\ Len(lines[h]) = 1
             /\ LineOf(<<h, 1>>).done
             /\ LineOf(proc[h].pline).done
             /\ mu = [w |-> 0, r |-> {}])

\* C4: a deferred value that logs a line while the outer line holds the
\* exclusive lock does not deadlock the logger: the outer line completes
\* with the placeholder and releases the lock, the inner line then
\* completes, and it is written whole after the last byte of the outer line.
C4_EmitUnderLock == []C4_InnerAfterOuter /\ C4_BothComplete

\* the inner line is complete and in the output after the outer line
C4_Witness ==
    \E h \in InnerEmitters :
        /\ Len(lines[h]) = 1
        /\ LineOf(<<h, 1>>).done
        /\ WritesAt(<<h, 1>>) # {}
        /\ LineOf(proc[h].pline).done
        /\ LineOf(proc[h].pline).x = 1

\* the goroutines whose Panic or Exit line has reached or passed its abort
Aborting == {p \in Procs : proc[p].pc \in {"abort", "panicked", "exited"}}

\* C9: when a Panic or Exit line aborts (panic, marker panic or os.Exit),
\* the whole line up to its closing bracket and newline has been written to
\* the destination, the goroutine holds the output lock in neither mode,
\* and its buffer is back in the pool.
C9_AbortAfterLine ==
    \A p \in Aborting :
        LET id == proc[p].line
            ws == WritesOf(id)
        IN  /\ proc[p].lev \in {lPanic, lExit}
            /\ Len(ws) > 0
            /\ ws[1].from = 0
            /\ ws[Len(ws)].to = LineOf(id).size
            /\ \A n \in 2 .. Len(ws) : ws[n].from = ws[n - 1].to
            /\ \A n \in 1 .. Len(ws) : ws[n].w = LineOf(id).w
            /\ mu.w # p /\ p \notin mu.r /\ ~proc[p].locked
            /\ ~proc[p].buf
            /\ LineOf(id).x + LineOf(id).r = 1

\* an Exit line too long for the scratch was written under the exclusive
\* lock and ended in the marker panic, another goroutine's line going on
C9_Witness ==
    \E p, q \in Procs :
        /\ proc[p].pc = "panicked" /\ proc[p].pv = "exit"
        /\ LineOf(proc[p].line).x = 1
        /\ Len(WritesOf(proc[p].line)) = 2
        /\ q # p /\ proc[q].line # NoLine /\ ~LineOf(proc[q].line).done

\* C5: a writer for a disabled severity is a no-op.  The registry hands out
\* the no-op for every level its table disables, and Enabled() of it is
\* false; an emitting method called on the no-op changes nothing but the
\* count of calls made: no Write, outMu untouched, no buffer taken from
\* bufPool, no line begun, no deferred value called; With, WithCaller and
\* WithStack applied to the no-op return the no-op.
C5_Obtained ==
    once = "done" =>
        \A lev \in Levels :
            snaps[cur].lagers[lev + 1] = noop
                => ~Enabled(forLevel(Heap, lev, <<>>).r)

C5_Step(p) ==
    /\ (proc[p].held = noop /\ proc'[p].n = proc[p].n + 1)
           => /\ out' = out /\ mu' = mu /\ pool' = pool /\ lines' = lines
              /\ proc' = [proc EXCEPT ![p].n = @ + 1]
    /\ (proc[p].held = noop /\ proc'[p].nd = proc[p].nd + 1)
           => /\ proc'[p].held = noop
              /\ ~Enabled(proc'[p].held)

C5_DisabledIsNoop == []C5_Obtained /\ [][\A p \in Callers : C5_Step(p)]_vars

\* a goroutine holds the no-op it derived from the writer of a disabled
\* level, and has called emitting methods on it only
C5_Witness ==
    \E p \in Callers :
        /\ proc[p].held = noop /\ proc[p].nd > 0 /\ proc[p].n = MaxLines
        /\ lines[p] = <<>>
        /\ snaps[cur].lagers[lInfo + 1] = noop

\* C6: in every snapshot published, whatever configuration calls were made,
\* the entries of the table for Panic and Exit are loggers of level Panic
\* and Exit, never the no-op.
C6_PanicExitActive ==
    \A k \in 1 .. Len(snaps) :
        \A lev \in {lPanic, lExit} :
            /\ snaps[k].lagers[lev + 1] # noop
            /\ snaps[k].lagers[lev + 1] \in 1 .. Len(loggers)
            /\ loggers[snaps[k].lagers[lev + 1]].lev = lev
            /\ loggers[snaps[k].lagers[lev + 1]].g = k

\* Init was called with a string naming Panic and Exit among its letters,
\* and its snapshot is the one published
C6_Witness ==
    \E p \in Callers :
        /\ proc[p].pc = "idle" /\ proc[p].made = cur /\ nupd = MaxUpdates
        /\ proc[p].upd = InitU(<<"G", "P", "E">>)
        /\ snaps[cur].lagers[lGuts + 1] # noop
        /\ snaps[cur].lagers[lFail + 1] = noop

\* the letters of the optional levels, Fail to Guts
LevelLetters == <<"F", "W", "N", "A", "I", "T", "D", "O", "G">>

\* the string Init(s) acts on
Effective(str) == IF str = <<>> THEN <<"F", "W", "N", "A">> ELSE str

\* the places of str where a letter of an optional level occurs for the
\* first time
FirstOccurrences(str) ==
    {j \in 1 .. Len(str) :
        /\ \E i \in 1 .. 9 : LevelLetters[i] = str[j]
        /\ \A i \in 1 .. j - 1 : str[i] # str[j]}

\* C7: in the snapshot Init(s) publishes, an optional level is bound to a
\* logger of that level if and only if its letter occurs in s (in "FWNA"
\* when s is empty) and to the no-op otherwise, Panic and Exit stay bound
\* whatever other characters s holds, and g.enabled is the letters of s
\* that name a level, each once, in the order of their first occurrence.
C7_InitLevels ==
    \A p \in Callers :
        (proc[p].pc = "idle" /\ proc[p].made # 0 /\ proc[p].upd.op = "setLevels")
        => LET g == snaps[proc[p].made]
               str == Effective(proc[p].upd.arg)
               F == FirstOccurrences(str)
           IN  /\ \A i \in 1 .. 9 :
                      LET e == g.lagers[lFail + i]
                      IN  IF \E j \in 1 .. Len(str) : str[j] = LevelLetters[i]
                          THEN e # noop /\ loggers[e].lev = lFail + i - 1
                          ELSE e = noop
               /\ g.lagers[lPanic + 1] # noop /\ g.lagers[lExit + 1] # noop
               /\ Len(g.enabled) = Cardinality(F)
               /\ \A k \in 1 .. Len(g.enabled) :
                      \E j \in F : /\ g.enabled[k] = str[j]
                                   /\ Cardinality({i \in F : i < j}) = k - 1

\* Init was called with a string that repeats a letter around a character
\* that names no level
C7_Witness ==
    \E p \in Callers :
        /\ proc[p].pc = "idle" /\ proc[p].made # 0
        /\ proc[p].upd.arg = <<"I", "f", "I">>
        /\ snaps[proc[p].made].enabled = <<"I">>
        /\ snaps[proc[p].made].lagers[lFail + 1] = noop

\* the snapshot line id was composed from
SnapOf(id) == snaps[LineOf(id).g]

\* every Write of a line goes to the destination logger.start chose
WritesFollow == \A i \in 1 .. Len(out) : out[i].w = LineOf(out[i].line).w

\* C8 as stated: Panic and Exit lines go to os.Stderr whatever SetOutput
\* was given; other lines go to that writer, or to os.Stdout without one.
C8_AlwaysStderr ==
    /\ WritesFollow
    /\ \A id \in Started :
           LineOf(id).w =
               IF LineOf(id).lev \in {lPanic, lExit} THEN "stderr"
               ELSE IF SnapOf(id).dest # "" THEN SnapOf(id).dest
               ELSE "stdout"

\* C8: with a writer given to SetOutput in its snapshot a line of any level,
\* Panic and Exit included, goes to that writer; without one Panic and Exit
\* lines go to os.Stderr and the others to os.Stdout.
C8_Destination ==
    /\ WritesFollow
    /\ \A id \in Started :
           LineOf(id).w =
               IF SnapOf(id).dest # "" THEN SnapOf(id).dest
               ELSE IF LineOf(id).lev \in {lPanic, lExit} THEN "stderr"
               ELSE "stdout"

\* a Panic or Exit line was written to the writer given to SetOutput
C8_Witness ==
    \E i \in 1 .. Len(out) :
        /\ out[i].w = "buf"
        /\ LineOf(out[i].line).lev \in {lPanic, lExit}

\* C10: a writer keeps the snapshot that was current when it was obtained.
\* Snapshots and loggers once published are never changed by an update; the
\* logger a goroutine holds points at the snapshot current when it was
\* obtained; a line it emits has that snapshot's keys, destination and level
\* name; a logger still emits when its level has been disabled since, and
\* the no-op still does nothing when its level has been enabled since.
C10_Held ==
    \A p \in Callers :
        proc[p].held > 0 => loggers[proc[p].held].g = proc[p].sid

C10_Step(p) ==
    /\ \A k \in 1 .. Len(snaps) : snaps'[k] = snaps[k]
    /\ \A k \in 1 .. Len(loggers) : loggers'[k] = loggers[k]
    /\ (proc[p].held > 0 /\ proc'[p].n = proc[p].n + 1)
           => /\ Len(lines'[p]) = Len(lines[p]) + 1
              /\ LET ln == lines'[p][Len(lines'[p])]
                     g == snaps[proc[p].sid]
                 IN  /\ ln.g = proc[p].sid
                     /\ ln.keys = g.keys
                     /\ ln.w = startDest(loggers[proc[p].held], g)
                     /\ ln.levName = ApplyLevDesc(g.levDesc, LevelString(ln.lev))
    /\ (proc[p].held = noop /\ proc'[p].n = proc[p].n + 1) => lines' = lines

C10_SnapshotKept == []C10_Held /\ [][\A p \in Callers : C10_Step(p)]_vars

\* a line was emitted under a snapshot older than the published one, which
\* differs from it in keys, destination, level names and the line's level
C10_Witness ==
    \E id \in Started :
        /\ LineOf(id).g # cur
        /\ \/ SnapOf(id).keys # snaps[cur].keys
           \/ SnapOf(id).dest # snaps[cur].dest
           \/ SnapOf(id).levDesc # snaps[cur].levDesc
           \/ snaps[cur].lagers[LineOf(id).lev + 1] = noop

\* the Exit lines written out whole
ExitLines == {id \in Started : LineOf(id).lev = lExit /\ LineOf(id).done}

\* C11: when the first use finds LAGER_KEYS malformed, initialization does
\* not hang (no goroutine waits for _firstInit), the program ends only
\* after a line of level Exit was logged, and no snapshot is published
\* from the malformed value.
C11_BadKeysExit ==
    ~KeysOk(env.keys) =>
        /\ \A p \in Emitters : proc[p].pc # "oncewait"
        /\ exited # -1 => ExitLines # {}
        /\ snaps = <<>>

\* the calls of Keys made last by each goroutine
KeysCalls == {p \in Callers : proc[p].call # <<>> /\ proc[p].call.op = "Keys"}

\* C12: Keys with six empty labels publishes a snapshot without key scheme;
\* Keys with when, lev, args or mod empty (not all six) logs a line of level
\* Exit and publishes nothing, neither before nor after that line, so the
\* key scheme stays what it was; any other Keys publishes a snapshot whose
\* key scheme is exactly the six labels given.
C12_Keys ==
    \A p \in KeysCalls :
        LET k == proc[p].call.k
            empty == \A i \in 1 .. 6 : k[i] = ""
            bad == ~empty /\ \E i \in {1, 2, 4, 6} : k[i] = ""
            published == proc[p].pc = "idle"
        IN  /\ bad => /\ proc[p].pc \notin {"idle", "updlock", "upd"}
                      /\ proc[p].made = proc[p].call.made
                      /\ lines[p] # <<>>
                      /\ lines[p][Len(lines[p])].lev = lExit
                      /\ lines[p][Len(lines[p])].size > 38
            /\ (empty /\ published) => /\ proc[p].made = cur \/ proc[p].made < cur
                                       /\ snaps[proc[p].made].keys = NoKeys
            /\ (~empty /\ ~bad /\ published)
                   => /\ proc[p].made # proc[p].call.made
                      /\ snaps[proc[p].made].keys = k

\* Keys was called without a label for mod after a key scheme had been
\* published: the Exit line is out, the program has exited, and the scheme
\* published is still the earlier one
C12_Witness ==
    \E p \in KeysCalls :
        /\ proc[p].call.k = <<"time", "sev", "msg", "data", "", "">>
        /\ exited = ExitStatus
        /\ lines[p][Len(lines[p])].done
        /\ snaps[cur].keys = SomeKeys

\* the letters of Level, by level, in upper and in lower case
CodeLetters == <<"P", "E", "F", "W", "N", "A", "I", "T", "D", "O", "G">>
LowerLetters == <<"p", "e", "f", "w", "n", "a", "i", "t", "d", "o", "g">>

\* the levels a byte names
LevelsOfByte(b) ==
    {l \in Levels : CodeLetters[l + 1] = b \/ LowerLetters[l + 1] = b}

\* the goroutines whose last call was Level
LevelCalls == {p \in Callers : proc[p].call # <<>> /\ proc[p].call.op = "Level"}

\* after Level(b) for a letter b of level l, and until the goroutine
\* obtains another writer: without a context the writer held is the entry for l of
\* the table current at the call, the instance the selector for l returns;
\* with a context it is a logger of level l and that snapshot (the no-op if
\* l is disabled) carrying the pairs of the context
C13_Selected ==
    \A p \in LevelCalls :
        \A l \in LevelsOfByte(proc[p].call.code) :
            /\ proc[p].pv # "level"
            /\ proc[p].sid \in 1 .. Len(snaps)
            /\ proc[p].held = forLevel([Heap EXCEPT !.cur = proc[p].sid], l, <<>>).r
                  \/ /\ proc[p].call.ctx
                     /\ proc[p].held # noop
                     /\ snaps[proc[p].sid].lagers[l + 1] # noop
                     /\ loggers[proc[p].held].lev = l
                     /\ loggers[proc[p].held].g = proc[p].sid
                     /\ maps[loggers[proc[p].held].kvp] = CtxPairs
            /\ ~proc[p].call.ctx
                   => proc[p].held = snaps[proc[p].sid].lagers[l + 1]

\* a call of Level with a byte that names no level panics: the goroutine
\* gets no writer and nothing of the configuration changes, not even the
\* first initialization
C13_Rejected(p) ==
    (/\ proc'[p].call # proc[p].call
     /\ proc'[p].call.op = "Level"
     /\ LevelsOfByte(proc'[p].call.code) = {})
        => /\ proc'[p].pc = "panicked"
           /\ proc'[p].held = proc[p].held
           /\ UNCHANGED <<heapVars, cfgVars, outVars>>
                 \/ /\ UNCHANGED <<heapVars, cfgVars, mu, pool, out, lines,
                                   exited>>
                    /\ \A q \in Procs \ {p} : proc'[q] = proc[q]

\* C13: Level(b) returns for each letter of "PEFWNAITDOG", in either case,
\* the writer the selector of that level returns, and panics for any other
\* byte without returning a writer and without changing the configuration.
C13_Level == []C13_Selected /\ [][\A p \in Callers : C13_Rejected(p)]_vars

\* Level('g') was called after Init("IG") and returned the logger the table
\* holds for Guts
C13_Witness ==
    \E p \in LevelCalls :
        /\ proc[p].call.code = "g" /\ ~proc[p].call.ctx
        /\ proc[p].held # noop
        /\ proc[p].sid = cur
        /\ proc[p].held = snaps[cur].lagers[lGuts + 1]
        /\ snaps[cur].enabled = <<"I", "G">>

\* goroutines whose last call was RecoverPanicToExit
RecoverCalls ==
    {p \in Callers : proc[p].call # <<>> /\ proc[p].call.op = "Recover"}

RECURSIVE C14_After(_, _)
\* the status after the first i handlers of hs, starting at 1
C14_After(hs, i) ==
    IF i = 0 THEN 1 ELSE ApplyHandler(hs[i], C14_After(hs, i - 1))

\* a step that lowers the count of registrations is a RecoverPanicToExit of
\* one goroutine p, and does what the value recovered asks for
C14_RecoverStep ==
    exiters' = exiters - 1 =>
        \E p \in Callers :
            /\ \A q \in Procs \ {p} : proc'[q] = proc[q]
            /\ UNCHANGED <<heapVars, gmu, nupd, stackWithExit, env, mu, pool, out, lines>>
            /\ proc'[p].call # <<>> /\ proc'[p].call.op = "Recover"
            /\ [proc'[p] EXCEPT !.call = <<>>, !.pc = "", !.pv = ""]
                   = [proc[p] EXCEPT !.call = <<>>, !.pc = "", !.pv = ""]
            /\ LET exit == C14_After(proc'[p].call.hs, Len(proc'[p].call.hs))
               IN  IF proc[p].pc = "panicked" /\ proc[p].pv = "exit"
                   THEN IF 0 <= exit
                        THEN exited' = exit
                        ELSE /\ exited' = exited
                             /\ proc'[p].pc = "idle"
                             /\ proc'[p].pv = ""
                   ELSE /\ exited' = exited
                        /\ proc'[p].pc = proc[p].pc
                        /\ proc'[p].pv = proc[p].pv

\* the end of an Exit line: os.Exit(1) with no registration pending, the
\* marker panic otherwise
C14_ExitLine ==
    \A p \in Procs :
        (/\ proc[p].pc = "abort" /\ proc[p].lev = lExit
         /\ proc'[p].pc # "abort") =>
            IF exiters = 0
            THEN exited' = ExitStatus /\ proc'[p].pc = "exited"
            ELSE /\ exited' = exited
                 /\ proc'[p].pc = "panicked"
                 /\ proc'[p].pv = "exit"

\* C14: RecoverPanicToExit always lowers the count of pending ExitViaPanic
\* registrations by one; on the panic of an Exit line it calls the handlers
\* in order on a status that starts at 1, exits with the final status when
\* that is zero or more and returns without exiting when it is negative; on
\* any other panic the goroutine goes on panicking with the same value; with
\* no panic nothing else changes.  An Exit line ends in os.Exit(1) exactly
\* when the count is zero and in the marker panic otherwise.
C14_Recover == [][C14_RecoverStep /\ C14_ExitLine]_vars

\* the panic of an Exit line was recovered with two handlers, the second
\* storing 0, and the program exited with status 0
C14_Witness ==
    /\ exited = 0
    /\ \E p \in RecoverCalls :
           /\ proc[p].call.pv = "exit"
           /\ proc[p].call.hs = <<"neg", "zero">>
           /\ proc[p].pc = "exited"

\* goroutines whose last call was With
WithCalls ==
    {p \in Callers : proc[p].call # <<>> /\ proc[p].call.op = "With"}

\* C15: With(ctxs...) on an active writer returns the receiver itself
\* whenever no context adds a pair: no contexts, contexts without stored
\* pairs, contexts whose stored map is empty.
C15_WithIdentity ==
    \A p \in WithCalls :
        (\A i \in 1 .. Len(proc[p].call.ctxs) :
             mapLen(maps, ContextPairs(proc[p].call.ctxs[i])) = 0)
            => proc[p].call.r = proc[p].call.l

\* goroutines whose last call was a.Merge(b), a.AddPairs(...) and
\* AddPairs(ctx, ...)
MergeCalls ==
    {p \in Callers : proc[p].call # <<>> /\ proc[p].call.op = "Merge"}

AddPairsCalls ==
    {p \in Callers : proc[p].call # <<>> /\ proc[p].call.op = "AddPairs"}

CtxAddPairsCalls ==
    {p \in Callers : proc[p].call # <<>> /\ proc[p].call.op = "CtxAddPairs"}

\* adding no tokens returns the receiver, or the context given
C16_NoTokens ==
    /\ \A p \in AddPairsCalls :
           proc[p].call.toks = <<>> => proc[p].call.r = proc[p].call.a
    /\ \A p \in CtxAddPairsCalls :
           proc[p].call.toks = <<>> =>
               proc[p].call.r = proc[p].call.ctx /\ ~proc[p].call.fresh

\* the statement as given: a.Merge(b) is the instance a for every a when b
\* is empty, and the instance b for every b when a is empty
C16_EitherEmpty ==
    /\ \A p \in MergeCalls :
           /\ mapLen(maps, proc[p].call.b) = 0
                  => proc[p].call.r = proc[p].call.a
           /\ mapLen(maps, proc[p].call.a) = 0
                  => proc[p].call.r = proc[p].call.b
    /\ C16_NoTokens

\* C16: for all maps a and b, nil and empty ones included, a.Merge(b) is
\* the very instance b when a has no keys, and the very instance a when a
\* has keys and b has none; a.AddPairs() without tokens is the instance a
\* and AddPairs(ctx) without tokens is ctx itself.
C16_MergeIdentity ==
    /\ \A p \in MergeCalls :
           /\ mapLen(maps, proc[p].call.a) = 0
                  => proc[p].call.r = proc[p].call.b
           /\ (mapLen(maps, proc[p].call.a) # 0
               /\ mapLen(maps, proc[p].call.b) = 0)
                  => proc[p].call.r = proc[p].call.a
    /\ C16_NoTokens

\* a map with keys was merged with an empty map that is not nil, and the
\* receiver came back
C16_Witness ==
    \E p \in MergeCalls :
        /\ mapLen(maps, proc[p].call.a) # 0
        /\ proc[p].call.b # 0
        /\ mapLen(maps, proc[p].call.b) = 0
        /\ proc[p].call.r = proc[p].call.a

\* the pairs of the map a on the heap (none for nil)
KVOf(a) == IF a = 0 THEN EmptyKV ELSE maps[a]

\* the pairs a call supplies, in order: the tokens of AddPairs two by two,
\* an odd trailing token with a null value; the pairs of b for Merge
C17_Supplied(c) ==
    IF c.op = "AddPairs"
    THEN [i \in 1 .. ((Len(c.toks) + 1) \div 2) |->
             [key |-> c.toks[2 * i - 1].f,
              val |-> IF 2 * i <= Len(c.toks) THEN c.toks[2 * i] ELSE Nil]]
    ELSE [i \in 1 .. Len(KVOf(c.b).keys) |->
             [key |-> KVOf(c.b).keys[i], val |-> KVOf(c.b).vals[i]]]

\* the update rule: base is the receiver, sup the pairs supplied, res the
\* result
C17_Rule(base, sup, res) ==
    LET old == {base.keys[i] : i \in 1 .. Len(base.keys)}
        first == {i \in 1 .. Len(sup) :
                     /\ sup[i].key \notin old
                     /\ \A j \in 1 .. (i - 1) : sup[j].key # sup[i].key}
    IN  /\ Len(res.keys) = Len(res.vals)
        /\ \A i, j \in 1 .. Len(res.keys) : res.keys[i] = res.keys[j] => i = j
        /\ Len(res.keys) = Len(base.keys) + Cardinality(first)
        /\ \A i \in 1 .. Len(base.keys) : res.keys[i] = base.keys[i]
        /\ \A i \in first :
               res.keys[Len(base.keys)
                        + Cardinality({j \in first : j <= i})] = sup[i].key
        /\ \A m \in 1 .. Len(res.keys) :
               LET given == {i \in 1 .. Len(sup) : sup[i].key = res.keys[m]}
               IN  res.vals[m] =
                       IF given = {} THEN base.vals[m]
                       ELSE sup[CHOOSE i \in given :
                                    \A j \in given : j <= i].val

\* C17: the map returned by AddPairs and by Merge keeps every key of the
\* receiver at its position, appends each new key after them in the order
\* of its first occurrence, gives every supplied key the last value
\* supplied for it (null for an odd trailing token), and so has one entry
\* per distinct key and as many values as keys.
C17_UpdateRule ==
    \A p \in AddPairsCalls \cup MergeCalls :
        C17_Rule(KVOf(proc[p].call.a), C17_Supplied(proc[p].call),
                 KVOf(proc[p].call.r))

\* the keys b, a took the tokens a, 1, a, nil, b: both keep their position,
\* a has the last value given and b the null of the trailing token
C17_Witness ==
    \E p \in AddPairsCalls :
        /\ KVOf(proc[p].call.a).keys = <<"b", "a">>
        /\ proc[p].call.toks = <<Text("a"), Str(1), Text("a"), Nil, Text("b")>>
        /\ KVOf(proc[p].call.r) = [keys |-> <<"b", "a">>, vals |-> <<Nil, Nil>>]

\* C18: no call of Pairs, AddPairs, Merge, InContext or With changes a map
\* that existed before it: every map on the heap keeps its keys and values
\* in their order.
C18_CopyOnWrite ==
    [][/\ Len(maps) <= Len(maps')
       /\ \A a \in 1 .. Len(maps) : maps'[a] = maps[a]]_vars

\* AddPairs on a map with keys gave a map with other pairs, and the receiver
\* is still on the heap with the pairs it had
C18_Witness ==
    \E p \in AddPairsCalls :
        /\ mapLen(maps, proc[p].call.a) # 0
        /\ proc[p].call.r # proc[p].call.a
        /\ maps[proc[p].call.r] # maps[proc[p].call.a]

\* goroutines whose last call was Map or MMap kept as text
TextCalls ==
    {p \in Callers : proc[p].call # <<>> /\ proc[p].call.op \in {"Map", "MMap"}}

RECURSIVE JsonValue(_, _)
RECURSIVE JsonElems(_, _)
RECURSIVE JsonMembers(_, _)
\* the index after the JSON value that starts at index i of the tokens t,
\* 0 when there is none
JsonValue(t, i) ==
    IF i > Len(t) THEN 0
    ELSE IF t[i].t \in {"q", "l"} THEN i + 1
    ELSE IF i = Len(t) THEN 0
    ELSE IF t[i] = P("[")
         THEN IF t[i + 1] = P("]") THEN i + 2 ELSE JsonElems(t, i + 1)
    ELSE IF t[i] = P("{")
         THEN IF t[i + 1] = P("}") THEN i + 2 ELSE JsonMembers(t, i + 1)
    ELSE 0

\* the index after the "]" that ends the elements starting at index i
JsonElems(t, i) ==
    LET j == JsonValue(t, i)
    IN  IF j = 0 \/ j > Len(t) THEN 0
        ELSE IF t[j] = P("]") THEN j + 1
        ELSE IF t[j] = P(",") THEN JsonElems(t, j + 1)
        ELSE 0

\* the index after the "}" that ends the members starting at index i: each
\* member is a quoted key, a colon and one value
JsonMembers(t, i) ==
    IF i + 1 > Len(t) \/ t[i].t # "q" \/ t[i + 1] # P(":") THEN 0
    ELSE LET j == JsonValue(t, i + 2)
         IN  IF j = 0 \/ j > Len(t) THEN 0
             ELSE IF t[j] = P("}") THEN j + 1
             ELSE IF t[j] = P(",") THEN JsonMembers(t, j + 1)
             ELSE 0

\* C19: every Map and MMap call on an active writer gives one line of valid
\* JSON that ends in a newline, whatever the tokens given as pairs: a list
\* from "[" to "]" without key labels, an object from "{" to "}" with them,
\* every member of an object a quoted key, a colon and one value.
C19_ValidJson ==
    \A p \in TextCalls :
        LET t == proc[p].call.text
        IN  /\ t[1] = P(IF proc[p].call.keys = NoKeys THEN "[" ELSE "{")
            /\ t[Len(t)] = P("\n")
            /\ JsonValue(t, 1) = Len(t)

RECURSIVE C20_Strip(_)
\* the tokens m without the skip sentinels in key position and the values
\* that follow them
C20_Strip(m) ==
    IF m = <<>> THEN <<>>
    ELSE IF Head(m).k = "skip"
         THEN IF Len(m) = 1 THEN <<>> ELSE C20_Strip(Tail(Tail(m)))
    ELSE IF Len(m) = 1 THEN m
    ELSE <<m[1], m[2]>> \o C20_Strip(Tail(Tail(m)))

\* the line and the deferred values called for the call c made with the
\* pairs prs in place of its own (MMap in list format writes the braces of
\* the map after the message whenever it was given a token)
C20_Line(c, prs) ==
    IF c.op = "Map" THEN jMap(c.keys, c.kv, prs)
    ELSE LET E == jMMap(c.keys, c.kv, Str(5), prs)
         IN  IF c.keys = NoKeys /\ prs = <<>> /\ c.prs # <<>>
             THEN [E EXCEPT !.t = SubSeq(E.t, 1, 6)
                                  \o <<P(","), P("{"), P("}")>>
                                  \o SubSeq(E.t, 7, Len(E.t))]
             ELSE E

\* C20: a skip sentinel in key position of the pairs, as Unless(true, label)
\* returns, takes its label and the value after it out of the line and the
\* value, when deferred, is not called: the line and the calls are those of
\* the same call made without these pairs (MMap in list format still
\* writes the braces of a map of which all pairs are skipped); Unless(false,
\* label) is the label.
C20_SkipPairs ==
    /\ \A label \in {Str(1), Str(2)} :
           /\ Unless(FALSE, label) = label
           /\ Unless(TRUE, label) = SkipThisPair
    /\ \A p \in TextCalls :
           LET c == proc[p].call
               E == C20_Line(c, C20_Strip(c.prs))
           IN  c.calls = E.calls /\ c.text = E.t

\* Map(Unless(true, "a"), f, "a") in list format: f was not called and the
\* line holds the one member "a":null
C20_Witness ==
    \E p \in TextCalls :
        /\ proc[p].call.kv = Nil
        /\ proc[p].call.op = "Map"
        /\ proc[p].call.prs = <<Unless(TRUE, Str(1)), Fn("quick"), Str(1)>>
        /\ proc[p].call.calls = <<>>
        /\ proc[p].call.text =
               <<P("["), Stamp(" "), P(","), Q(4), P(","), P("{"), Q(1), P(":"),
                 Lit("null", 0), P("}"), P("]"), P("\n")>>

\* the tokens of an inlined RawMap as its rawPairs leaves them: an odd
\* trailing key has the value null, an odd trailing skip sentinel is dropped
C21_Pad(m) ==
    IF Len(m) % 2 = 0 THEN m
    ELSE IF m[Len(m)].k = "skip" THEN SubSeq(m, 1, Len(m) - 1)
    ELSE IF m[Len(m)].k = "inline" THEN m
    ELSE Append(m, Nil)

RECURSIVE C21_Expand(_)
\* the tokens m with every inline sentinel in key position and the value
\* after it replaced by what the claim says is written: the pairs of a
\* RawMap (expanded in turn) or of an AMap, else the key "cannot-inline"
\* (13 bytes) and the value
C21_Expand(m) ==
    IF Len(m) < 2 THEN m
    ELSE (IF m[1].k # "inline" THEN <<m[1], m[2]>>
          ELSE IF m[2].k = "rawmap" THEN C21_Pad(C21_Expand(m[2].items))
          ELSE IF m[2].k = "amap" THEN m[2].items
          ELSE <<Str(13), m[2]>>)
         \o C21_Expand(Tail(Tail(m)))

\* C21: an inline sentinel in key position followed by a RawMap or an AMap
\* has the pairs of that value written in its place, in their order, as
\* members of the enclosing object, nested sentinels included; followed by
\* any other value, a list included, it gives the one member
\* "cannot-inline": value.  The line and the deferred values called are
\* those of the call made with the pairs written out.
C21_InlinePairs ==
    \A p \in TextCalls :
        LET c == proc[p].call
            E == C20_Line(c, C21_Expand(c.prs))
        IN  c.text = E.t /\ c.calls = E.calls

\* Map(InlinePairs, m, InlinePairs) ... in list format with m the nested
\* RawMap: its skipped pair is left out, its list is under "cannot-inline",
\* its trailing key has null, all as members of the one object
C21_Witness ==
    \E p \in TextCalls :
        /\ proc[p].call.kv = Nil
        /\ proc[p].call.op = "Map" /\ proc[p].call.keys = NoKeys
        /\ proc[p].call.prs =
               <<InlinePairs,
                 RawMap(<<SkipThisPair, Fn("quick"), InlinePairs,
                          AList(<<Str(2)>>), Str(2)>>),
                 Str(1)>>
        /\ proc[p].call.calls = <<>>
        /\ proc[p].call.text =
               <<P("["), Stamp(" "), P(","), Q(4), P(","), P("{"),
                 Q(13), P(":"), P("["), Q(2), P("]"), P(","),
                 Q(2), P(":"), Lit("null", 0), P(","),
                 Q(1), P(":"), Lit("null", 0),
                 P("}"), P("]"), P("\n")>>

\* pairs made of string keys with, as values, strings, maps without pairs
\* and lists holding such a map
C22_Plain(prs) ==
    \A i \in 1 .. Len(prs) :
        IF i % 2 = 1 THEN prs[i].k = "str"
        ELSE prs[i] \in {Str(1), AMapOf(<<>>), AList(<<AMapOf(<<>>)>>)}

\* the tokens of such a value: an AMap without pairs is written as {}
C22_Value(v) ==
    IF v.k = "str" THEN <<Q(v.n)>>
    ELSE IF v.k = "amap" THEN <<P("{"), P("}")>>
    ELSE <<P("["), P("{"), P("}"), P("]")>>

RECURSIVE C22_Members(_, _)
\* the members written for plain pairs from index i on, each after a comma
C22_Members(prs, i) ==
    IF i > Len(prs) THEN <<>>
    ELSE <<P(","), Q(prs[i].n), P(":")>>
         \o (IF i = Len(prs) THEN <<Lit("null", 0)>>
             ELSE C22_Value(prs[i + 1]))
         \o C22_Members(prs, i + 2)

\* the whole line of Map(prs...) for plain pairs on a writer with context kv
C22_Text(keys, kv, prs) ==
    LET ctx == IF kv.k = "amap" /\ kv.items # <<>>
               THEN <<Q(kv.items[1].n), P(":"), Q(kv.items[2].n)>>
               ELSE <<>>
    IN  IF keys = NoKeys
        THEN <<P("["), Stamp(" "), P(","), Q(4), P(","), P("{")>>
             \o (IF prs = <<>> THEN <<>> ELSE Tail(C22_Members(prs, 1)))
             \o <<P("}")>>
             \o (IF ctx = <<>> THEN <<>>
                 ELSE <<P(","), P("{")>> \o ctx \o <<P("}")>>)
             \o <<P("]"), P("\n")>>
        ELSE <<P("{"), Q(Len(kWhen(keys))), P(":"), Stamp("T"), P(","),
               Q(Len(kLev(keys))), P(":"), Q(4)>>
             \o C22_Members(prs, 1)
             \o (IF ctx = <<>> THEN <<>>
                 ELSE IF kCtx(keys) = "" THEN <<P(",")>> \o ctx
                 ELSE <<P(","), Q(Len(kCtx(keys))), P(":"), P("{")>>
                      \o ctx \o <<P("}")>>)
             \o <<P("}"), P("\n")>>

\* Map calls with plain pairs
C22_Calls ==
    {p \in TextCalls : proc[p].call.op = "Map" /\ C22_Plain(proc[p].call.prs)}

\* the statement as given: a map without pairs nested as a value leaves no
\* {} in the line, and a writer whose context has no pairs writes no
\* context
C22_EmptySkipped ==
    \A p \in C22_Calls :
        LET c == proc[p].call
        IN  /\ c.prs # <<>> =>
                   ~\E i \in 1 .. (Len(c.text) - 1) :
                        c.text[i] = P("{") /\ c.text[i + 1] = P("}")
            /\ (c.kv.k # "amap" \/ c.kv.items = <<>>) =>
                   c.text = C22_Text(c.keys, Nil, c.prs)

\* C22: an AMap without pairs nested as a value, in a list or after a key,
\* is written as {} where the value stands; a writer whose context is nil
\* or has no pairs writes no context element and no context key, a writer
\* with context pairs writes them after the pairs of the call.
C22_EmptyMaps ==
    \A p \in C22_Calls :
        proc[p].call.text
            = C22_Text(proc[p].call.keys, proc[p].call.kv, proc[p].call.prs)

\* Map("a", m) with m an AMap without pairs, on a writer whose context is
\* a map without pairs, in list format: "a":{} and no context
C22_Witness ==
    \E p \in TextCalls :
        /\ proc[p].call.op = "Map" /\ proc[p].call.keys = NoKeys
        /\ proc[p].call.kv = AMapOf(<<>>)
        /\ proc[p].call.prs = <<Str(1), AMapOf(<<>>)>>
        /\ proc[p].call.text =
               <<P("["), Stamp(" "), P(","), Q(4), P(","), P("{"), Q(1), P(":"),
                 P("{"), P("}"), P("}"), P("]"), P("\n")>>

\* the goroutines that escaped a string
EscCalls ==
    {p \in DOMAIN proc : proc[p].call # <<>> /\ proc[p].call.op = "escape"}

\* the bytes from index i up to the next valid rune or the end of the string
C23_RunLen(bs, i) ==
    CHOOSE n \in 1 .. (Len(bs) - i + 1) :
        /\ i + n > Len(bs) \/ ~notUtf8(DecodeRune(bs, i + n))
        /\ \A k \in 1 .. (n - 1) : notUtf8(DecodeRune(bs, i + k))

RECURSIVE C23_Hex(_, _, _)
\* two upper-case hex digits for each of bs[i .. j], in order
C23_Hex(bs, i, j) ==
    IF i > j THEN <<>>
    ELSE <<hexDigits(bs[i] \div 16), hexDigits(bs[i] % 16)>>
         \o C23_Hex(bs, i + 1, j)

RECURSIVE C23_Expected(_, _)
\* the text for bs[i ..]: every valid rune as escape writes it on its own,
\* every maximal run of other bytes as one token
C23_Expected(bs, i) ==
    IF i > Len(bs) THEN <<>>
    ELSE IF ~notUtf8(DecodeRune(bs, i))
    THEN LET w == DecodeRune(bs, i).rl
         IN  escape(SubSeq(bs, i, i + w - 1)) \o C23_Expected(bs, i + w)
    ELSE LET n == C23_RunLen(bs, i)
         IN  <<194, 171, 120>> \o C23_Hex(bs, i, i + n - 1) \o <<194, 187>>
             \o C23_Expected(bs, i + n)

\* C23: escape of a string and escapeBytes of the same bytes give the same
\* text; every maximal run of bytes that are not valid UTF-8 becomes one
\* token of the guillemet, x, two upper-case hex digits per byte in order
\* and the closing guillemet; every valid rune is written as it is on its
\* own; no byte of U+FFFD appears that the string did not hold.
C23_Escape ==
    \A p \in EscCalls :
        LET c == proc[p].call
        IN  /\ c.str = c.byt
            /\ c.str = C23_Expected(c.s, 1)
            /\ \A k \in 1 .. Len(c.str) : c.str[k] # 239

\* "A", the two bytes 92 FF that are no rune, and a newline: A, one token
\* for both bytes, and the escaped newline
C23_Witness ==
    \E p \in EscCalls :
        /\ proc[p].call.s = <<65, 146, 255, 10>>
        /\ proc[p].call.str =
               <<65, 194, 171, 120, 57, 50, 70, 70, 194, 187, 92, 110>>
        /\ proc[p].call.byt = proc[p].call.str

\* C24: RunningInGcp() returns to its caller and releases _globalsMutex:
\* no goroutine waits for _globalsMutex while it holds that mutex itself,
\* and a goroutine that is back from its call does not hold it.
C24_RunningInGcp ==
    \A p \in Emitters :
        /\ ~(proc[p].pc = "updlock" /\ gmu = p)
        /\ proc[p].pc = "idle" => gmu # p

\* goroutine p holds outMu exclusively: its Lock() has returned
HoldsX(p) == mu.w = p /\ proc[p].pc # "lockw"

\* what holds of the lock in every state: a line takes the exclusive lock
\* at most once; b.locked is true exactly while its goroutine holds the
\* lock exclusively; a goroutine that is not within a line holds the lock
\* in no mode
C25_Held ==
    /\ \A p \in Procs : \A k \in 1 .. Len(lines[p]) : lines[p][k].x <= 1
    /\ \A p \in Procs : proc[p].locked <=> HoldsX(p)
    /\ \A p \in Procs :
           proc[p].pc \in {"idle", "off"} => mu.w # p /\ p \notin mu.r

\* what holds of every step: the exclusive lock, once taken, is kept until
\* the step of unlock() that follows the final flush, which releases it; a
\* Write of a line that never called lock() is made with the lock held in
\* shared mode by its goroutine and exclusively by none, and is the only
\* Write of that line
C25_Kept ==
    /\ \A p \in Procs :
           proc[p].locked =>
               \/ proc'[p].locked /\ mu'.w = p
                      /\ proc'[p].line = proc[p].line
               \/ /\ proc[p].pc = "rel" /\ proc[p].len = 0
                  /\ ~proc'[p].locked /\ mu'.w = 0
    /\ out' # out =>
           LET rec == out'[Len(out')]
               p == rec.line[1]
           IN  LineOf(rec.line).x = 0 =>
                   /\ p \in mu.r
                   /\ \A q \in Procs : ~HoldsX(q)
                   /\ proc[p].pc = "final"
                   /\ WritesOf(rec.line) = <<>>

\* C25: the lock-mode discipline of one line.  The line takes outMu
\* exclusively at its first call of lock() and at most once, keeps it until
\* its final flush is done and then releases that hold; a line that never
\* called lock() makes its only Write holding outMu in shared mode while
\* no line holds it exclusively; b.locked is true exactly while the line
\* holds the exclusive lock; no line returns holding the lock.
C25_LockModes == [][C25_Held /\ C25_Held' /\ C25_Kept]_vars

\* one line went through lock() and was written in several calls, another
\* took the shared lock only and was written in one; both have returned
C25_Witness ==
    \E a \in LineIds, b \in LineIds :
        /\ a[1] \in Procs /\ a[2] <= Len(lines[a[1]])
        /\ b[1] \in Procs /\ b[2] <= Len(lines[b[1]])
        /\ LineOf(a).done /\ LineOf(a).x = 1 /\ LineOf(a).r = 0
        /\ Len(WritesOf(a)) > 1
        /\ LineOf(b).done /\ LineOf(b).x = 0 /\ LineOf(b).r = 1
        /\ Len(WritesOf(b)) = 1
        /\ mu = [w |-> 0, r |-> {}]

\* the Write calls of line id hand over its bytes from the first on, each
\* call starting where the one before ended and none empty; a line under
\* way has handed over all it appended but what b.buf holds; a complete
\* line has handed over every byte its operations appended
C26_Cover(id) ==
    LET ws == WritesOf(id)
        l == LineOf(id)
        s == proc[id[1]]
        sent == IF ws = <<>> THEN 0 ELSE ws[Len(ws)].to
    IN  /\ \A i \in 1 .. Len(ws) :
               /\ ws[i].from = (IF i = 1 THEN 0 ELSE ws[i - 1].to)
               /\ ws[i].from < ws[i].to
        /\ s.line = id /\ ~l.done => sent = s.pos - s.len
        /\ l.done => sent = l.size /\ l.total = l.size

\* every line started so far
C26_Lines == {id \in LineIds : id[2] <= Len(lines[id[1]])}

\* a chunk is written directly only when it is larger than the scratch,
\* b.buf is empty and the exclusive lock is held
C26_Direct ==
    \A p \in Procs :
        proc[p].pc = "direct" /\ out' # out /\ proc'[p] # proc[p] =>
            /\ proc[p].len = 0
            /\ proc[p].locked /\ mu.w = p
            /\ ScratchCap < out'[Len(out')].to - out'[Len(out')].from
            /\ out'[Len(out')].from = proc[p].pos

\* C26: for every line the bytes handed to the destination over its Write
\* calls, in call order, are the bytes appended, in append order, none
\* lost, repeated or moved, whether a chunk was buffered, caused a flush or
\* was written directly; a chunk is written directly only after the
\* buffered bytes were flushed and under the exclusive lock.
C26_SameBytes ==
    [][(\A id \in C26_Lines : C26_Cover(id))
       /\ (\A id \in C26_Lines : C26_Cover(id))'
       /\ C26_Direct]_vars

\* a complete line written in three calls: the buffered start, the string
\* larger than the scratch, the buffered rest
C26_Witness ==
    \E id \in C26_Lines :
        LET ws == WritesOf(id)
        IN  /\ LineOf(id).done
            /\ Len(ws) = 3
            /\ ws[1].from = 0
            /\ ScratchCap < ws[2].to - ws[2].from
            /\ ws[3].to = LineOf(id).size

\* the logger indexes in the severity table of snapshot sid
TableOf(sid) ==
    {snaps[sid].lagers[i] : i \in 1 .. nLevels} \ {noop}

\* the snapshot sid is whole: every active writer of its table is a logger
\* of its level whose g is sid, and no other snapshot's table holds it
C27_Whole(sid) ==
    /\ \A i \in 1 .. nLevels :
           snaps[sid].lagers[i] # noop =>
               /\ snaps[sid].lagers[i] \in 1 .. Len(loggers)
               /\ loggers[snaps[sid].lagers[i]].g = sid
               /\ loggers[snaps[sid].lagers[i]].lev = i - 1
    /\ \A k \in 1 .. Len(snaps) :
           k # sid => TableOf(k) \cap TableOf(sid) = {}

\* the published snapshot and every one published before it is whole
C27_Built ==
    /\ cur = Len(snaps)
    /\ \A sid \in 1 .. Len(snaps) : C27_Whole(sid)

\* a step changes no snapshot built so far and no writer of its table, and
\* publishes at most one new snapshot, made by the one goroutine that is
\* within updateGlobals with _globalsMutex held, or by firstInit
C27_Frozen ==
    /\ Len(snaps') >= Len(snaps)
    /\ \A sid \in 1 .. Len(snaps) :
           /\ snaps'[sid] = snaps[sid]
           /\ \A j \in TableOf(sid) : loggers'[j] = loggers[j]
    /\ cur' # cur =>
           /\ cur' = cur + 1 /\ Len(snaps') = cur'
           /\ \E p \in Emitters :
                  /\ proc[p].pc \in {"init", "upd"}
                  /\ proc'[p].pc \in {"initret", "idle"}
                  /\ proc[p].pc = "upd" => gmu = p /\ proc'[p].made = cur'
                  /\ \A q \in Emitters \ {p} : proc'[q] = proc[q]

\* C27: the snapshot reached through _globals is completely built: every
\* active writer of its table references that snapshot, it is the work of
\* one completed update (or of firstInit) on a copy of its predecessor,
\* and neither it nor the writers of its table change after publication.
C27_Published == [][C27_Built /\ C27_Built' /\ C27_Frozen]_vars

\* three snapshots were published, the last by an update that ran while
\* a writer of the first snapshot was held by a reader
C27_Witness ==
    /\ cur = 3
    /\ \E p \in Emitters :
           /\ proc[p].pc = "idle" /\ proc[p].sid = 1
           /\ proc[p].held \in TableOf(1)
           /\ loggers[proc[p].held].g = 1
    /\ \E q \in Emitters : proc[q].made = 3

\* what a snapshot says, apart from the identity of its loggers
C28_View(g) ==
    [keys |-> g.keys, enabled |-> g.enabled, dest |-> g.dest,
     pathParts |-> g.pathParts, levDesc |-> g.levDesc, inGcp |-> g.inGcp,
     spanPrefix |-> g.spanPrefix,
     active |-> {i \in 1 .. nLevels : g.lagers[i] # noop}]

\* the fields the mutator of update u sets
C28_Sets(u) ==
    CASE u.op = "setLevels" -> {"enabled", "active"}
      [] u.op = "setKeys" -> {"keys"}
      [] u.op \in {"dest", "restore"} -> {"dest"}
      [] u.op = "pathParts" -> {"pathParts"}
      [] u.op = "levDesc" -> {"levDesc"}
      [] u.op = "spanPrefix" -> {"spanPrefix"}

\* the snapshot after the mutator of u has run on a copy of snapshot g
C28_After(u, g) == applyUpdater(u, [g |-> g, loggers |-> loggers]).g

RECURSIVE C28_Fold(_, _, _)
\* the snapshot after the updates of the goroutines ord[i ..] ran one by
\* one from snapshot g
C28_Fold(ord, i, g) ==
    IF i > Len(ord) THEN g
    ELSE C28_Fold(ord, i + 1, C28_After(proc[ord[i]].upd, g))

\* the goroutines that have completed an update and made no call since
C28_Done ==
    {p \in Emitters :
        proc[p].made # 0 /\ proc[p].pc = "idle" /\ proc[p].upd.op # "read"}

\* the orders in which the goroutines of D can be listed
C28_Orders(D) ==
    {f \in [1 .. Cardinality(D) -> D] :
        \A i, j \in 1 .. Cardinality(D) : f[i] = f[j] => i = j}

\* once every update begun has completed, each by another goroutine, the
\* published snapshot is what the mutators give when run one after
\* another, in some order, from the snapshot of firstInit
C28_Serial ==
    Cardinality(C28_Done) = nupd /\ nupd > 0 =>
        \E ord \in C28_Orders(C28_Done) :
            C28_View(snaps[cur]) = C28_View(C28_Fold(ord, 1, snaps[1]))

\* an update publishes the snapshot published just before it with the
\* fields its mutator sets changed and every other field as it was
C28_NoStale ==
    \A p \in Emitters :
        proc[p].pc = "upd" /\ cur' # cur =>
            LET old == C28_View(snaps[cur])
                new == C28_View(snaps'[cur'])
            IN  /\ new = C28_View(C28_After(proc[p].upd, snaps[cur]))
                /\ \A f \in DOMAIN old \ C28_Sets(proc[p].upd) :
                       new[f] = old[f]

\* C28: concurrent configuration updates are serialized and none is lost:
\* the snapshot published in the end is the result of the mutators applied
\* one after another in some order, each to the snapshot published by the
\* one before, and no update puts a stale value into a field its mutator
\* did not set.
C28_NoLostUpdate == [][C28_Serial /\ C28_Serial' /\ C28_NoStale]_vars

\* Keys and SetOutput were called by two goroutines, in either order of
\* publication, and the published snapshot has both the keys and the
\* destination
C28_Witness ==
    /\ cur = 3
    /\ \E p \in Emitters, q \in Emitters :
           /\ proc[p].upd = KeysU(SomeKeys) /\ proc[q].upd = SetOutputU("buf")
           /\ proc[p].pc = "idle" /\ proc[q].pc = "idle"
           /\ {proc[p].made, proc[q].made} = {2, 3}
    /\ snaps[cur].keys = SomeKeys /\ snaps[cur].dest = "buf"

\* the goroutines past _firstInit.Do
C29_Past ==
    {p \in Emitters : proc[p].pc \in {"access", "updlock", "upd"}}

\* what holds in every state: one goroutine at most is within firstInit; a
\* goroutine is past Do only once firstInit has stored its snapshot and Do
\* has returned to the goroutine that ran it; no getGlobals() found
\* _globals empty; a writer held was read from a published snapshot
C29_Once ==
    /\ Cardinality({p \in Emitters : proc[p].pc \in {"init", "initret"}}) <= 1
    /\ (\E p \in Emitters : proc[p].pc \in {"init", "initret"})
           <=> once = "running"
    /\ once = "no" => cur = 0 /\ snaps = <<>>
    /\ C29_Past # {} => once = "done" /\ cur # 0
    /\ \A p \in Emitters :
           /\ proc[p].pc # "panicked"
           /\ proc[p].upd.op = "read" /\ proc[p].pc = "idle" =>
                  proc[p].sid \in 1 .. Len(snaps)
           /\ proc[p].made # 0 => proc[p].made > 1

\* what holds of every step: firstInit stores once, into an empty
\* _globals; every later Store is that of an update, which builds on the
\* snapshot published before it, so that none is replaced by the snapshot
\* of firstInit
C29_Order ==
    /\ \A p \in Emitters :
           proc[p].pc = "init" /\ proc'[p].pc # "init" =>
               cur = 0 /\ cur' = 1 /\ Len(snaps') = 1
    /\ cur # 0 /\ cur' # cur =>
           /\ cur' > cur
           /\ \E p \in Emitters :
                  /\ proc[p].pc = "upd"
                  /\ C28_View(snaps'[cur'])
                         = C28_View(C28_After(proc[p].upd, snaps[cur]))

\* C29: under any interleaving of first accesses, reads and updates alike,
\* firstInit runs once and has stored its snapshot before any accessor is
\* past _firstInit.Do; no accessor finds _globals empty; an update that
\* races with the first read is applied to the snapshot of firstInit and
\* is not overwritten by it.
C29_FirstInit == [][C29_Once /\ C29_Once' /\ C29_Order]_vars

\* a read reached _firstInit.Do while firstInit was running for Keys and
\* is still waiting to go on; the snapshot of firstInit was stored and the
\* update published on top of it
C29_Witness ==
    \E p \in Emitters, q \in Emitters :
        /\ proc[p].upd = KeysU(SomeKeys) /\ proc[p].made = 2
        /\ proc[q].upd.op = "read" /\ proc[q].pc = "oncewait"
        /\ once = "done"
        /\ cur = 2 /\ snaps[2].keys = SomeKeys /\ snaps[1].keys = env.keys

\* the goroutines whose line is complete
C30_Lines ==
    {p \in Emitters :
        /\ proc[p].call # <<>> /\ proc[p].call.op = "line"
        /\ proc[p].call.stage = 3}

\* the line of call c is the one its writer's snapshot gives: it opens and
\* closes with the brackets of that snapshot's format, has its separator
\* in the timestamp and its key names, goes to its destination, and is as
\* a whole the line composed with that snapshot in force throughout
C30_Under(c) ==
    LET g == snaps[c.g]
        t == c.text.t
    IN  /\ t[1] = P(IF g.keys = NoKeys THEN "[" ELSE "{")
        /\ t[Len(t) - 1] = P(IF g.keys = NoKeys THEN "]" ELSE "}")
        /\ t[Len(t)] = P("\n")
        /\ g.keys = NoKeys => t[2] = Stamp(" ")
        /\ g.keys # NoKeys =>
               /\ t[2] = Q(Len(kWhen(g.keys)))
               /\ t[4] = Stamp("T")
               /\ t[6] = Q(Len(kLev(g.keys)))
        /\ c.w = (IF g.dest # "" THEN g.dest
                  ELSE IF c.lev \in {lPanic, lExit} THEN "stderr"
                  ELSE "stdout")
        /\ t = jMap(g.keys, c.kv, c.prs).t

\* C30: each line is composed under the one snapshot its writer carries:
\* opening bracket, timestamp, key names, destination, place of the
\* context pairs and closing bracket come from it, whatever updates are
\* published while the line is composed.
C30_OneSnapshot == \A p \in C30_Lines : C30_Under(proc[p].call)

\* a line with pairs and context begun in list format under the published
\* snapshot and ended after Keys had published the object format: it is a
\* list from end to end
C30_Witness ==
    \E p \in C30_Lines :
        LET c == proc[p].call
        IN  /\ c.at = c.g /\ c.endcur # c.g
            /\ snaps[c.g].keys = NoKeys /\ snaps[c.endcur].keys = SomeKeys
            /\ c.kv # Nil /\ c.prs # <<>>
            /\ c.text.t[1] = P("[")
            /\ c.text.t[Len(c.text.t) - 1] = P("]")

====
